---- MODULE Spec2Model ----
(***************************************************************************)
(* A model of zippy.py: the heuristic layout detectors and the per-layout  *)
(* word-extraction strategies of the dictionary-to-wordlist pipeline.      *)
(*                                                                         *)
(* A text line is a sequence of Unicode code points, a line corpus is a    *)
(* sequence of lines, and a word list is a sequence of words (sequences of *)
(* code points).  The string primitives of Python that the program uses    *)
(* (strip, split, in, isalpha, lower, ...) are modelled on code points.    *)
(* The character tables cover the blocks the program itself names: Basic   *)
(* Latin .. Combining Diacritical Marks (0x0000-0x036F), Cyrillic, Arabic, *)
(* Devanagari, Hiragana, Katakana, CJK Unified and the few punctuation     *)
(* characters of its delimiter sets.                                       *)
(***************************************************************************)
EXTENDS Integers, Sequences, FiniteSets, TLC

VARIABLES
    lines,             \* the line corpus handed to extract_words_from_gzip_content
    extract_language,  \* the requested role, "source" or "target"
    is_dz_file,        \* whether the input is flagged as a .dz file
    pc,                \* position of the document: runs still to be supplied, or "done" after the call
    words,             \* the word list the call returned
    strategy,          \* the branch of extract_words_from_gzip_content that produced words
    posline,           \* should_include_word_by_pos: its line argument
    filters,           \* should_include_word_by_pos: its filters argument
    ret,               \* the value returned by the one function a specification applies
    arg,               \* the argument of that function, when it is none of the above
    output_file,       \* save_wordlist: the lines written to the output file
    dict_files,        \* process_all_dictionaries: the dictionary files found
    attempted,         \* process_all_dictionaries: the files handed to process_single_dictionary
    success_count      \* process_all_dictionaries: its counter

vars == <<lines, extract_language, is_dz_file, pc, words, strategy,
          posline, filters, ret, arg, output_file, dict_files, attempted, success_count>>

\* The variables of the extraction from a line corpus, and the others
corpusVars == <<lines, extract_language, is_dz_file, words, strategy, posline, filters>>
runVars == <<arg, output_file, dict_files, attempted, success_count>>

-----------------------------------------------------------------------------
(* Characters.                                                             *)

\* The printable ASCII characters in code-point order, 0x20 first (the grave
\* accent 0x60 goes by a name).
AsciiChars ==
    << " ", "!", "\"", "#", "$", "%", "&", "'", "(", ")", "*", "+", ",", "-", ".", "/",
       "0", "1", "2", "3", "4", "5", "6", "7", "8", "9", ":", ";", "<", "=", ">", "?",
       "@", "A", "B", "C", "D", "E", "F", "G", "H", "I", "J", "K", "L", "M", "N", "O",
       "P", "Q", "R", "S", "T", "U", "V", "W", "X", "Y", "Z", "[", "\\", "]", "^", "_",
       "BACKTICK", "a", "b", "c", "d", "e", "f", "g", "h", "i", "j", "k", "l", "m", "n", "o",
       "p", "q", "r", "s", "t", "u", "v", "w", "x", "y", "z", "{", "|", "}", "~" >>

\* Names for the non-ASCII characters used below, with their code points.
NamedChars ==
    [ TAB |-> 9, NL |-> 10,
      eacute |-> 233,          \* e with acute
      nacute |-> 324,          \* n with acute, in the header keyword 'piotr banski'
      ipa_schwa |-> 601, ipa_open_e |-> 603, ipa_small_i |-> 618,
      ipa_rev_e |-> 604,       \* reversed open e
      ipa_stress |-> 712,      \* primary stress mark
      ipa_long |-> 720,        \* length mark
      hyphen2010 |-> 8208,     \* the non-ASCII hyphen of _NORMALIZE_RE
      cy_d |-> 1076, cy_o |-> 1086, cy_m |-> 1084,   \* Cyrillic de, o, em
      ar_b |-> 1576, ar_y |-> 1610, ar_t |-> 1578,   \* Arabic beh, yeh, teh
      ar_comma |-> 1548,
      dv_gha |-> 2328, dv_ra |-> 2352,               \* Devanagari gha, ra
      cjk_house |-> 23478,     \* CJK unified ideograph 'house'
      hira_i |-> 12356, hira_e |-> 12360,            \* Hiragana i, e
      cjk_comma |-> 12289, cjk_stop |-> 12290,
      fw_comma |-> 65292, fw_semi |-> 65307 ]

\* ord(): the code point of a character given by its ASCII glyph or its name.
Ord(ch) ==
    IF \E i \in 1..Len(AsciiChars) : AsciiChars[i] = ch
    THEN 31 + (CHOOSE i \in 1..Len(AsciiChars) : AsciiChars[i] = ch)
    ELSE NamedChars[ch]

\* A string literal: the code points of a sequence of characters.
S(chars) == [i \in 1..Len(chars) |-> Ord(chars[i])]

\* str.isspace(), which is also the default separator set of str.split() and
\* str.strip() and the class \s of re.
Whitespace == (9..13) \cup (28..32) \cup {133, 160, 8239, 8287, 12288}
              \cup (8192..8202) \cup (8232..8233)

\* string.punctuation
Punctuation == (33..47) \cup (58..64) \cup (91..96) \cup (123..126)

\* str.isalpha() on one character.
IsAlpha(c) ==
    \/ c \in 65..90 \/ c \in 97..122
    \/ c \in {170, 181, 186} \/ c \in 192..214 \/ c \in 216..246 \/ c \in 248..705
    \/ c \in 710..721 \/ c \in 736..740 \/ c \in {748, 750}
    \/ c \in 1024..1153 \/ c \in 1162..1279
    \/ c \in 1568..1610 \/ c \in 1646..1647 \/ c \in 1649..1747
    \/ c \in {1749, 1765, 1766, 1774, 1775, 1786, 1787, 1788, 1791}
    \/ c \in 2308..2361 \/ c \in {2365, 2384} \/ c \in 2392..2401 \/ c \in 2417..2431
    \/ c \in 12353..12438 \/ c \in 12445..12447 \/ c \in 12449..12538
    \/ c \in 12540..12543 \/ c \in 19968..40959

\* str.isdigit() on one character.
IsDigit(c) ==
    \/ c \in 48..57 \/ c \in {178, 179, 185}
    \/ c \in 1632..1641 \/ c \in 1776..1785 \/ c \in 2406..2415

\* str.isalnum() on one character.
IsAlnum(c) == IsAlpha(c) \/ IsDigit(c) \/ c \in 188..190

\* str.lower() on one character (ASCII, Latin-1 and the basic Cyrillic capitals).
LowerChar(c) ==
    IF c \in 65..90 \/ c \in 192..214 \/ c \in 216..222 \/ c \in 1040..1071
    THEN c + 32
    ELSE IF c \in 1024..1039 THEN c + 80 ELSE c

\* str.upper() on one character whose upper case is a single ASCII or Latin-1
\* character; U+017F (long s) and U+0131 (dotless i) map to 'S' and 'I'.
UpperChar(c) ==
    IF c \in 97..122 \/ c \in 224..246 \/ c \in 248..254 THEN c - 32
    ELSE IF c = 383 THEN 83
    ELSE IF c = 305 THEN 73
    ELSE c

-----------------------------------------------------------------------------
(* Strings.                                                                *)

Lower(s) == [i \in 1..Len(s) |-> LowerChar(s[i])]
Upper(s) == [i \in 1..Len(s) |-> UpperChar(s[i])]

MinOf(set) == CHOOSE x \in set : \A y \in set : x <= y

\* c in s, for a character c
HasChar(s, c) == \E i \in 1..Len(s) : s[i] = c

\* sub in s, for a string sub
Contains(s, sub) ==
    \E i \in 1..(Len(s) - Len(sub) + 1) : \A k \in 1..Len(sub) : s[i + k - 1] = sub[k]

\* s.startswith(prefix) and s.endswith(suffix)
StartsWith(s, prefix) ==
    Len(prefix) <= Len(s) /\ \A k \in 1..Len(prefix) : s[k] = prefix[k]
EndsWith(s, suffix) ==
    Len(suffix) <= Len(s) /\ SubSeq(s, Len(s) - Len(suffix) + 1, Len(s)) = suffix

\* s.lstrip(chars) and s.rstrip(chars)
RECURSIVE LStripChars(_, _)
LStripChars(s, chars) ==
    IF s = << >> \/ Head(s) \notin chars THEN s ELSE LStripChars(Tail(s), chars)

RECURSIVE RStripChars(_, _)
RStripChars(s, chars) ==
    IF s = << >> \/ s[Len(s)] \notin chars THEN s
    ELSE RStripChars(SubSeq(s, 1, Len(s) - 1), chars)

\* s.strip(chars): s without its leading and trailing characters in chars
StripChars(s, chars) == RStripChars(LStripChars(s, chars), chars)

\* s.strip()
Strip(s) == StripChars(s, Whitespace)

\* s.rstrip('\n')
RStripNewline(s) == RStripChars(s, {10})

\* The split of s from index i on, with the token under way in cur
RECURSIVE TokensFrom(_, _, _, _)
TokensFrom(s, i, seps, cur) ==
    IF i > Len(s) THEN (IF cur = << >> THEN << >> ELSE << cur >>)
    ELSE IF s[i] \in seps
    THEN (IF cur = << >> THEN << >> ELSE << cur >>) \o TokensFrom(s, i + 1, seps, << >>)
    ELSE TokensFrom(s, i + 1, seps, Append(cur, s[i]))

\* The maximal runs of characters of s not in seps, in order: s.split() for
\* seps = Whitespace, and the non-empty parts of re.split on a class of seps.
Tokens(s, seps) == TokensFrom(s, 1, seps, << >>)

\* s with every character in chars removed
RemoveChars(s, chars) ==
    LET Keep(c) == c \notin chars IN SelectSeq(s, Keep)

\* s with every character in chars replaced by the character by
ReplaceChars(s, chars, by) ==
    [i \in 1..Len(s) |-> IF s[i] \in chars THEN by ELSE s[i]]

\* s.isalpha(): non-empty and every character alphabetic
StrIsAlpha(s) == Len(s) > 0 /\ \A i \in 1..Len(s) : IsAlpha(s[i])

\* The concatenation of a sequence of sequences, halving the sequence so that
\* a long corpus nests only a few evaluations.
RECURSIVE Flatten(_)
Flatten(ss) ==
    IF Len(ss) = 0 THEN << >>
    ELSE IF Len(ss) = 1 THEN ss[1]
    ELSE LET m == Len(ss) \div 2
         IN  Flatten(SubSeq(ss, 1, m)) \o Flatten(SubSeq(ss, m + 1, Len(ss)))

\* s.replace(sub, by) for a non-empty string sub: the leftmost occurrences,
\* none overlapping, are replaced.
RECURSIVE ReplaceSub(_, _, _)
ReplaceSub(s, sub, by) ==
    IF Len(s) < Len(sub) THEN s
    ELSE IF SubSeq(s, 1, Len(sub)) = sub
         THEN by \o ReplaceSub(SubSeq(s, Len(sub) + 1, Len(s)), sub, by)
         ELSE << Head(s) >> \o ReplaceSub(Tail(s), sub, by)

-----------------------------------------------------------------------------
(* The program's constants.                                                *)

\* HEADER_PATTERNS['prefixes']
HeaderPrefixes ==
    { S(<<"#">>), S(<<"0","0","-","d","a","t","a","b","a","s","e">>), S(<<"A","u","t","h","o","r",":">>), S(<<"M","a","i","n","t","a","i","n","e","r",":">>), S(<<"E","d","i","t","i","o","n",":">>),
      S(<<"S","i","z","e",":">>), S(<<"P","u","b","l","i","s","h","e","r",":">>), S(<<"A","v","a","i","l","a","b","i","l","i","t","y",":">>), S(<<"C","o","p","y","r","i","g","h","t">>),
      S(<<"T","h","i","s"," ","p","r","o","g","r","a","m">>), S(<<"P","u","b","l","i","s","h","e","d">>), S(<<"I","D","#">>), S(<<"S","e","r","i","e","s",":">>), S(<<"C","h","a","n","g","e","l","o","g",":">>),
      S(<<"*">>), S(<<"N","o","t","e","s",":">>), S(<<"S","o","u","r","c","e","(","s",")",":">>), S(<<"D","a","t","a","b","a","s","e"," ","S","t","a","t","u","s",":">>), S(<<"T","h","e"," ","P","r","o","j","e","c","t",":">>) }

\* HEADER_PATTERNS['keywords']
HeaderKeywords ==
    { S(<<"f","r","e","e","d","i","c","t">>), S(<<"d","i","c","t","i","o","n","a","r","y">>), S(<<"l","i","c","e","n","s","e">>), S(<<"c","o","p","y","r","i","g","h","t">>),
      S(<<"a","v","a","i","l","a","b","l","e">>), S(<<"f","o","u","n","d","a","t","i","o","n">>), S(<<"v","e","r","s","i","o","n">>), S(<<"v","e","r",".">>), S(<<"c","o","n","v","e","r","t","e","d">>),
      S(<<"i","m","p","o","r","t","e","d">>), S(<<"m","a","k","e","f","i","l","e">>), S(<<"i","n","i","t","i","a","l">>), S(<<"m","i","c","h","a","e","l"," ","b","u","n","k">>),
      S(<<"p","i","o","t","r"," ","b","a","nacute","s","k","i">>), S(<<"c","o","n","v","e","r","s","i","o","n"," ","o","f"," ","t","e","i">>), S(<<"t","o","o","l","s","/","x","s","l">>),
      S(<<"m","a","n","u","a","l"," ","c","l","e","a","n","-","u","p">>), S(<<"s","t","a","b","l","e">>) }

\* The strings YEAR_PATTERN matches: 20 followed by 05, 10 or 18..24.
YearTokens ==
    { S(<<"2","0","0","5">>), S(<<"2","0","1","0">>), S(<<"2","0","1","8">>), S(<<"2","0","1","9">>), S(<<"2","0","2","0">>), S(<<"2","0","2","1">>), S(<<"2","0","2","2">>),
      S(<<"2","0","2","3">>), S(<<"2","0","2","4">>) }

\* POS_FILTERS, the process-wide filter configuration
POS_FILTERS ==
    [ include |-> { S(<<"n">>), S(<<"a","d","j">>), S(<<"a","d","v">>), S(<<"v">>) }, skip_plurals |-> TRUE ]

ENGLISH_STOPWORDS ==
    { S(<<"t","h","e">>), S(<<"a","n","d">>), S(<<"o","f">>), S(<<"o","r">>), S(<<"i","n">>), S(<<"t","o">>), S(<<"f","o","r">>), S(<<"w","i","t","h">>),
      S(<<"f","r","o","m">>), S(<<"b","y">>), S(<<"a","t">>), S(<<"o","n">>), S(<<"a","n">>), S(<<"a","s">>), S(<<"b","e">>), S(<<"i","s">>),
      S(<<"a","r","e">>), S(<<"w","a","s">>), S(<<"w","e","r","e">>), S(<<"b","e","e","n">>), S(<<"h","a","v","e">>), S(<<"h","a","s">>), S(<<"h","a","d">>),
      S(<<"w","i","l","l">>), S(<<"w","o","u","l","d">>), S(<<"c","o","u","l","d">>), S(<<"s","h","o","u","l","d">>), S(<<"m","a","y">>), S(<<"m","i","g","h","t">>),
      S(<<"c","a","n">>), S(<<"m","u","s","t">>) }

\* base_pos_types and extended_pos_types of extract_base_pos_types
BasePosTypes == { S(<<"n">>), S(<<"a","d","j">>), S(<<"a","d","v">>), S(<<"v">>), S(<<"p","l">>) }
ExtendedPosTypes ==
    { S(<<"p","n">>), S(<<"p","h","r","a","s","e","o","l","o","g","i","c","a","l","U","n","i","t">>), S(<<"i","n","t","e","r","j","e","c","t","i","o","n">>), S(<<"p","r","e","p","o","s","i","t","i","o","n">>),
      S(<<"p","r","o","n","o","u","n">>), S(<<"c","o","n","j","u","n","c","t","i","o","n">>), S(<<"n","u","m","e","r","a","l">>), S(<<"d","e","t","e","r","m","i","n","e","r">>), S(<<"i","n","t">>),
      S(<<"p","r","e","p">>), S(<<"p","r","o","n">>), S(<<"c","o","n","j">>), S(<<"n","u","m">>), S(<<"v","t">>), S(<<"v","i">>), S(<<"a","r","t">>) }

\* The denylist of is_valid_word
TechnicalAbbreviations ==
    { S(<<"A","D","N">>), S(<<"A","R","N">>), S(<<"A","T","P">>), S(<<"A","D","S","L">>), S(<<"U","S","B">>), S(<<"D","V","D">>), S(<<"A","A","O">>), S(<<"A","B","P">>),
      S(<<"A","F","I">>), S(<<"A","M","P","A">>), S(<<"A","C","S">>), S(<<"A","N","P","E">>), S(<<"A","T","B">>) }

\* The accented letters, apostrophe and hyphen is_valid_word allows
ValidWordExtras ==
    {39, 45, 225, 224, 226, 228, 233, 232, 234, 235, 237, 236, 238, 239,
     243, 242, 244, 246, 250, 249, 251, 252, 253, 255, 241, 231, 322, 347,
     378, 380, 261, 281, 263, 324, 382, 269, 353, 273}

\* The character class of _NORMALIZE_RE: - U+2010 ' . , / and space
NormalizeChars == {45, 8208, 39, 46, 44, 47, 32}

\* The character class of _IPA_MARKER_RE (it includes U+0303, the combining
\* tilde of the nasal vowels)
IpaMarkerChars ==
    {592, 601, 618, 603, 604, 720, 643, 633, 596, 593, 594, 230, 652, 660,
     600, 623, 612, 606, 616, 650, 649, 629, 630, 339, 248, 771, 712, 716}

\* The character class of PRONUNCIATION_SIMPLE_RE between its slashes
SimplePhoneticChars == (65..90) \cup (97..122) \cup {603, 596, 593, 618, 601, 771}

\* The keys of _TRANSLATE_MAP: , Arabic comma, CJK comma, ~
TranslateChars == {44, 1548, 12289, 126}

\* The sampling windows and thresholds of the detectors
SCRIPT_SAMPLE_SIZE == 500
ALT_START == 50
ALT_END == 200
ALT_MAX_SAMPLES == 5
SIMPLE_START == 50
SIMPLE_END == 400
SIMPLE_PRONUNCIATION_SCAN == 200
SIMPLE_MIN_PATTERNS == 3
SIMPLE_MAX_LINE == 50
SIMPLE_MAX_WORD == 30
MULTI_START == 50
MULTI_END == 150
MULTI_MIN_INDICATORS == 5
MULTI_MIN_TOKENS == 8

-----------------------------------------------------------------------------
(* Scripts.                                                                *)

\* UNICODE_RANGES: the inclusive code-point range of each script
UNICODE_RANGES ==
    [ devanagari   |-> << 2304, 2431 >>,
      arabic       |-> << 1536, 1791 >>,
      cyrillic     |-> << 1024, 1279 >>,
      cjk_hiragana |-> << 12352, 12447 >>,
      cjk_katakana |-> << 12448, 12543 >>,
      cjk_unified  |-> << 19968, 40879 >> ]

is_script_character(char, script) ==
    /\ script \in DOMAIN UNICODE_RANGES
    /\ UNICODE_RANGES[script][1] <= char
    /\ char <= UNICODE_RANGES[script][2]

contains_script(text, script) ==
    \E i \in 1..Len(text) : is_script_character(text[i], script)

is_cjk_character(char) ==
    \E script \in {"cjk_hiragana", "cjk_katakana", "cjk_unified"} :
        is_script_character(char, script)

contains_cjk(text) == \E i \in 1..Len(text) : is_cjk_character(text[i])

-----------------------------------------------------------------------------
(* Line predicates and the word normalizer / validator.                    *)

contains_year(line) == \E y \in YearTokens : Contains(line, y)

is_header_line(line) ==
    LET line_lower == Lower(line)
    IN  \/ \E p \in HeaderPrefixes : StartsWith(line, p)
        \/ \E keyword \in HeaderKeywords : Contains(line_lower, keyword)

clean_word(word) == StripChars(word, Punctuation)

normalize_word(word) == RemoveChars(word, NormalizeChars)

\* A variant whose last test accepts letters but no digits
is_valid_word_letters_only(word) ==
    IF Len(word) < 3 THEN FALSE
    ELSE LET w == Strip(word)
             alnum == Cardinality({i \in 1..Len(w) : IsAlnum(w[i])})
         IN  IF Len(w) < 3 THEN FALSE
             ELSE IF Upper(w) \in TechnicalAbbreviations THEN FALSE
             ELSE IF 10 * alnum < 6 * Len(w) THEN FALSE
             ELSE \A i \in 1..Len(w) :
                      IsAlpha(w[i]) \/ w[i] \in Whitespace \/ w[i] \in ValidWordExtras

is_valid_word(word) ==
    IF Len(word) < 3 THEN FALSE
    ELSE LET w == Strip(word)
             alnum == Cardinality({i \in 1..Len(w) : IsAlnum(w[i])})
         IN  IF Len(w) < 3 THEN FALSE
             ELSE IF Upper(w) \in TechnicalAbbreviations THEN FALSE
             \* sum(c.isalnum() for c in word) < len(word) * 0.6
             ELSE IF 10 * alnum < 6 * Len(w) THEN FALSE
             ELSE \A i \in 1..Len(w) :
                      IsAlnum(w[i]) \/ w[i] \in Whitespace \/ w[i] \in ValidWordExtras

\* PRONUNCIATION_SIMPLE_RE.search(line): a slash, one or more characters of
\* the class, a slash
HasSimplePhonetic(line) ==
    \E i \in 1..Len(line) : \E j \in (i + 2)..Len(line) :
        /\ line[i] = 47
        /\ line[j] = 47
        /\ \A k \in (i + 1)..(j - 1) : line[k] \in SimplePhoneticChars

has_pronunciation_markers(line) ==
    IF ~HasChar(line, 47) THEN FALSE
    ELSE IF \E i \in 1..Len(line) : line[i] \in IpaMarkerChars THEN TRUE
    ELSE HasSimplePhonetic(line)

\* line.split('/')[0]
BeforeFirstSlash(line) ==
    LET at == {i \in 1..Len(line) : line[i] = 47}
    IN  IF at = {} THEN line ELSE SubSeq(line, 1, MinOf(at) - 1)

\* extract_pronunciation_word returns Optional[str]: here the sequence of the
\* one word it returns, or the empty sequence for None.
extract_pronunciation_word(line) ==
    IF ~HasChar(line, 47) THEN << >>
    ELSE LET word  == Strip(BeforeFirstSlash(line))
             clean == normalize_word(word)
         IN  IF Len(word) < 1 THEN << >>
             ELSE IF /\ Len(clean) >= 2
                     /\ StrIsAlpha(clean)
                     /\ ~\E i \in 1..Len(word) : IsDigit(word[i])
                  THEN << word >>
                  ELSE << >>

\* translation.translate(_TRANSLATE_MAP)
Translate(translation) == ReplaceChars(translation, TranslateChars, 32)

\* clean_word of every whitespace-separated word of text
CleanedWords(text) ==
    LET parts == Tokens(text, Whitespace)
    IN  [k \in 1..Len(parts) |-> clean_word(parts[k])]

extract_simple_translation_words(translation) ==
    SelectSeq(CleanedWords(Translate(translation)), StrIsAlpha)

\* The separators of the CJK branch of _yield_words_by_script:
\* , fullwidth comma, CJK comma, CJK full stop, fullwidth semicolon, ; or \s
CjkSeparators == {44, 65292, 12289, 12290, 65307, 59} \cup Whitespace

\* The characters its part.strip() removes
CjkStripChars == {46, 44, 65292, 12289, 12290, 65307, 59, 32}

\* The ranges of the non-CJK branch of _yield_words_by_script
ScriptWordRanges(script) ==
    CASE script = "arabic"     -> { << 1536, 1791 >> }
      [] script = "cyrillic"   -> { << 1024, 1279 >> }
      [] script = "devanagari" -> { << 2304, 2431 >> }
      [] OTHER                 -> { }

\* A variant that keeps every word with a character of the script
yield_words_containing_script(line, script) ==
    IF script = "cjk"
    THEN LET parts == Tokens(Strip(line), CjkSeparators)
             clean == [k \in 1..Len(parts) |-> StripChars(parts[k], CjkStripChars)]
             Keep(w) == Len(w) > 0 /\ contains_cjk(w)
         IN  SelectSeq(clean, Keep)
    ELSE LET Keep(w) == contains_script(w, script)
         IN  SelectSeq(CleanedWords(line), Keep)

_yield_words_by_script(line, script) ==
    IF script = "cjk"
    THEN LET parts == Tokens(Strip(line), CjkSeparators)
             clean == [k \in 1..Len(parts) |-> StripChars(parts[k], CjkStripChars)]
             Keep(w) == Len(w) > 0 /\ contains_cjk(w)
         IN  SelectSeq(clean, Keep)
    ELSE LET ranges == ScriptWordRanges(script)
             Keep(w) ==
                 /\ Len(w) >= 2
                 /\ \A i \in 1..Len(w) :
                        \/ \E r \in ranges : r[1] <= w[i] /\ w[i] <= r[2]
                        \/ w[i] \in {32, 45}
         IN  SelectSeq(CleanedWords(line), Keep)

-----------------------------------------------------------------------------
(* The part-of-speech filter.                                              *)

\* re.findall(r'<([^>]+)>', line) from position i on: the tags in order
RECURSIVE PosTagsFrom(_, _)
PosTagsFrom(line, i) ==
    IF i > Len(line) THEN << >>
    ELSE IF line[i] # 60 THEN PosTagsFrom(line, i + 1)
    ELSE LET closes == {j \in (i + 1)..Len(line) : line[j] = 62}
         IN  IF closes = {} THEN << >>
             ELSE IF MinOf(closes) = i + 1 THEN PosTagsFrom(line, i + 1)
             ELSE << SubSeq(line, i + 1, MinOf(closes) - 1) >>
                      \o PosTagsFrom(line, MinOf(closes) + 1)

extract_pos_tags(line) == PosTagsFrom(line, 1)

\* The non-empty parts of re.split(r'[,\s]+', pos_tag.strip()), lower-cased and
\* stripped, that are known types (an empty part is never a known type).
extract_base_pos_types(pos_tag) ==
    LET parts == Tokens(Strip(pos_tag), {44} \cup Whitespace)
        lower == [k \in 1..Len(parts) |-> Strip(Lower(parts[k]))]
        Known(part) == part \in BasePosTypes \/ part \in ExtendedPosTypes
    IN  SelectSeq(lower, Known)

\* filters.get(key, default)
FilterGet(f, key, default) == IF key \in DOMAIN f THEN f[key] ELSE default

\* A variant that consults the inclusion list before the plural check
include_before_plural(line, f) ==
    LET include  == FilterGet(f, "include", {})
        pos_tags == extract_pos_tags(line)
        Types(k) == extract_base_pos_types(pos_tags[k])
    IN  IF include = {} THEN TRUE
        ELSE IF pos_tags = << >> THEN TRUE
        ELSE IF \E k \in 1..Len(pos_tags) :
                    \E t \in 1..Len(Types(k)) : Types(k)[t] \in include
             THEN TRUE
        ELSE FALSE

\* A variant that filters nothing
include_always(line, f) == TRUE

should_include_word_by_pos(line, f) ==
    LET include  == FilterGet(f, "include", {})
        pos_tags == extract_pos_tags(line)
        Types(k) == extract_base_pos_types(pos_tags[k])
    IN  IF include = {} THEN TRUE
        ELSE IF pos_tags = << >> THEN TRUE
        ELSE IF /\ FilterGet(f, "skip_plurals", FALSE)
                /\ \E k \in 1..Len(pos_tags) :
                       \E t \in 1..Len(Types(k)) : Types(k)[t] = S(<<"p","l">>)
             THEN FALSE
        ELSE \E k \in 1..Len(pos_tags) :
                 \E t \in 1..Len(Types(k)) : Types(k)[t] \in include

-----------------------------------------------------------------------------
(* The layout detectors.                                                   *)

\* lines[i] for a 0-based index i, as the program indexes its corpus
At(ls, i) == ls[i + 1]

Minimum(a, b) == IF a <= b THEN a ELSE b

\* The first index from i on, below stop, whose line is not blank once
\* stripped; stop if there is none.  Every loop over the corpus does nothing
\* at a blank line but step to the next index, so a loop that is at index i
\* is next at work at this index.
NextNonBlank(ls, i, stop) ==
    IF i >= stop THEN stop
    ELSE IF Strip(At(ls, i)) # << >> THEN i
    ELSE LET rest == {j \in (i + 1)..(stop - 1) : Strip(At(ls, j)) # << >>}
         IN  IF rest = {} THEN stop ELSE MinOf(rest)

\* The script whose tally detect_target_language_script increments for a
\* character, "none" if it increments no tally
ScriptOfChar(code) ==
    IF 1536 <= code /\ code <= 1791 THEN "arabic"
    ELSE IF 1024 <= code /\ code <= 1279 THEN "cyrillic"
    ELSE IF \/ (19968 <= code /\ code <= 40879)
            \/ (12352 <= code /\ code <= 12447)
            \/ (12448 <= code /\ code <= 12543) THEN "cjk"
    ELSE IF 2304 <= code /\ code <= 2431 THEN "devanagari"
    ELSE IF 32 <= code /\ code <= 127 THEN "latin"
    ELSE "none"

\* counts[script] after the scan of the characters text, the characters of
\* the sampled lines in the order the two nested loops visit them
ScriptCount(text, script) ==
    Cardinality({i \in 1..Len(text) : ScriptOfChar(text[i]) = script})

\* Where the scan first meets a character of the script: the Counter keeps its
\* keys in the order of their first increment, and max() returns the first
\* of the keys with the highest count.
FirstSeen(text, script) ==
    MinOf({i \in 1..Len(text) : ScriptOfChar(text[i]) = script})

\* A variant that keeps the Latin tally in the comparison
detect_script_keeping_latin(ls, sample_size) ==
    LET text    == Flatten(SubSeq(ls, 1, Minimum(sample_size, Len(ls))))
        count   == [s \in {"arabic", "cyrillic", "cjk", "devanagari", "latin"} |->
                        ScriptCount(text, s)]
        present == {s \in DOMAIN count : count[s] > 0}
        best    == {s \in present : \A t \in present : count[t] <= count[s]}
    IN  IF present = {} THEN "latin"
        ELSE CHOOSE s \in best :
                 \A t \in best : FirstSeen(text, s) <= FirstSeen(text, t)

detect_target_language_script(ls, sample_size) ==
    LET text    == Flatten(SubSeq(ls, 1, Minimum(sample_size, Len(ls))))
        count   == [s \in {"arabic", "cyrillic", "cjk", "devanagari"} |->
                        ScriptCount(text, s)]
        present == {s \in DOMAIN count : count[s] > 0}
        best    == {s \in present : \A t \in present : count[t] <= count[s]}
    IN  IF present = {} THEN "latin"
        ELSE CHOOSE s \in best :
                 \A t \in best : FirstSeen(text, s) <= FirstSeen(text, t)

\* The header markers detect_alternating_pattern looks for inside a line
AltHeaderMarkers == { S(<<"0","0","-","d","a","t","a","b","a","s","e">>), S(<<"A","u","t","h","o","r",":">>), S(<<"S","i","z","e",":">>) }

\* The sample, if any, that the pair (line1, line2) adds to pattern_samples
AltSample(line1, line2) ==
    IF /\ Len(line1) > 0 /\ Len(line2) > 0
       /\ ~\E h \in AltHeaderMarkers : Contains(line1, h)
       /\ ~\E h \in AltHeaderMarkers : Contains(line2, h)
    THEN LET has_pronunciation_1 == has_pronunciation_markers(line1)
             has_pronunciation_2 == has_pronunciation_markers(line2)
             is_latin_1 == StrIsAlpha(normalize_word(line1))
             is_latin_2 == StrIsAlpha(normalize_word(line2))
         IN  IF has_pronunciation_1 /\ is_latin_2 /\ ~has_pronunciation_2
             THEN << "source-target" >>
             ELSE IF has_pronunciation_2 /\ is_latin_1 /\ ~has_pronunciation_1
             THEN << "target-source" >>
             ELSE << >>
    ELSE << >>

\* The scan loop of detect_alternating_pattern from index i on, with the
\* samples collected so far: pattern_samples when the loop ends
RECURSIVE AltScan(_, _, _)
AltScan(ls, i, samples) ==
    LET stop == Minimum(ALT_END, Len(ls) - 1)
        j    == NextNonBlank(ls, i, stop)
    IN  IF j >= stop THEN samples
        ELSE LET now == samples \o AltSample(Strip(At(ls, j)), Strip(At(ls, j + 1)))
             IN  IF Len(now) >= ALT_MAX_SAMPLES THEN now
                 ELSE AltScan(ls, j + 1, now)

CountOf(samples, v) == Cardinality({k \in 1..Len(samples) : samples[k] = v})

\* The verdict of detect_alternating_pattern on the samples it collected
AltVerdict(pattern_samples) ==
    LET source_target_count == CountOf(pattern_samples, "source-target")
        target_source_count == CountOf(pattern_samples, "target-source")
    IN  IF pattern_samples = << >> THEN "unknown"
        ELSE IF source_target_count > target_source_count THEN "source-target"
        ELSE IF target_source_count > source_target_count THEN "target-source"
        ELSE "unknown"

\* A variant that never stops collecting: every sample of the window votes
detect_alternating_uncapped(ls) ==
    LET window == ALT_START..(Minimum(ALT_END, Len(ls) - 1) - 1)
        Votes(v) == Cardinality({i \in window :
                        AltSample(Strip(At(ls, i)), Strip(At(ls, i + 1))) = << v >>})
    IN  IF Votes("source-target") > Votes("target-source") THEN "source-target"
        ELSE IF Votes("target-source") > Votes("source-target") THEN "target-source"
        ELSE "unknown"

\* A variant whose scan starts at the first line
detect_alternating_from_start(ls) == AltVerdict(AltScan(ls, 0, << >>))

\* A variant whose scan starts one line late
detect_alternating_from_next(ls) == AltVerdict(AltScan(ls, ALT_START + 1, << >>))

detect_alternating_pattern(ls) == AltVerdict(AltScan(ls, ALT_START, << >>))

\* The markers and the technical words that disqualify a line in
\* detect_simple_format
SimpleMarkers == { S(<<"/">>), S(<<"<">>), S(<<">">>), S(<<"1",".">>), S(<<"2",".">>), S(<<"*">>) }
SimpleTechnicalWords ==
    { S(<<"h","t","t","p">>), S(<<"w","w","w">>), S(<<"e","m","a","i","l">>), S(<<"@">>), S(<<"c","r","e","a","t","i","n","g">>), S(<<"m","a","k","e","f","i","l","e">>) }

\* Whether the iteration of detect_simple_format on (line, next_line), both
\* stripped, increments pattern_count
SimpleLineCounts(line, next_line) ==
    /\ Len(line) > 0
    /\ ~is_header_line(line)
    /\ ~contains_year(line)
    /\ Len(line) <= SIMPLE_MAX_LINE
    /\ ~(HasChar(line, 58) /\ ~StartsWith(line, S(<<"-">>)))
    /\ Len(next_line) > 0
    /\ ~(StartsWith(line, S(<<" ">>)) \/ StartsWith(line, << 9 >>))
    /\ ~\E marker \in SimpleMarkers : Contains(line, marker)
    /\ Len(line) <= SIMPLE_MAX_WORD
    /\ ~EndsWith(line, S(<<":">>))
    /\ ~\E w \in SimpleTechnicalWords : Contains(Lower(line), w)

\* The scan loop of detect_simple_format from index i on, with pattern_count
RECURSIVE SimpleScan(_, _, _)
SimpleScan(ls, i, pattern_count) ==
    LET stop == Minimum(SIMPLE_END, Len(ls) - 1)
        j    == NextNonBlank(ls, i, stop)
    IN  IF j >= stop THEN FALSE
        ELSE IF SimpleLineCounts(Strip(At(ls, j)), Strip(At(ls, j + 1)))
        THEN (IF pattern_count + 1 >= SIMPLE_MIN_PATTERNS THEN TRUE
              ELSE SimpleScan(ls, j + 1, pattern_count + 1))
        ELSE SimpleScan(ls, j + 1, pattern_count)

\* A variant whose scan starts one line late
detect_simple_from_next(ls) ==
    LET head == SubSeq(ls, 1, Minimum(SIMPLE_PRONUNCIATION_SCAN, Len(ls)))
        has_pronunciation_pos ==
            \E k \in 1..Len(head) :
                HasChar(head[k], 47) /\ HasChar(head[k], 60) /\ HasChar(head[k], 62)
    IN  IF has_pronunciation_pos THEN FALSE
        ELSE SimpleScan(ls, SIMPLE_START + 1, 0)

detect_simple_format(ls) ==
    LET head == SubSeq(ls, 1, Minimum(SIMPLE_PRONUNCIATION_SCAN, Len(ls)))
        has_pronunciation_pos ==
            \E k \in 1..Len(head) :
                HasChar(head[k], 47) /\ HasChar(head[k], 60) /\ HasChar(head[k], 62)
    IN  IF has_pronunciation_pos THEN FALSE
        ELSE SimpleScan(ls, SIMPLE_START, 0)

\* len(line.split())
TokenCount(line) == Len(Tokens(line, Whitespace))

\* Whether the iteration of detect_multiline_format on the stripped lines
\* (line1, line2, line3) increments multiline_indicators
MultiTripleCounts(line1, line2, line3) ==
    /\ Len(line1) > 0 /\ Len(line2) > 0 /\ Len(line3) > 0
    /\ HasChar(line1, 47) /\ HasChar(line1, 60)
    /\ ~HasChar(line2, 47)
    /\ (HasChar(line3, 46) \/ TokenCount(line3) > MULTI_MIN_TOKENS)

\* The scan loop of detect_multiline_format from index i on
RECURSIVE MultiScan(_, _, _)
MultiScan(ls, i, multiline_indicators) ==
    LET stop == Minimum(MULTI_END, Len(ls) - 2)
        j    == NextNonBlank(ls, i, stop)
    IN  IF j >= stop THEN FALSE
        ELSE LET now == IF MultiTripleCounts(Strip(At(ls, j)), Strip(At(ls, j + 1)),
                                             Strip(At(ls, j + 2)))
                        THEN multiline_indicators + 1
                        ELSE multiline_indicators
             IN  IF now >= MULTI_MIN_INDICATORS THEN TRUE
                 ELSE MultiScan(ls, j + 1, now)

\* A variant whose scan starts one line late
detect_multiline_from_next(ls) == MultiScan(ls, MULTI_START + 1, 0)

detect_multiline_format(ls) == MultiScan(ls, MULTI_START, 0)

-----------------------------------------------------------------------------
(* The extraction strategies.  A word list is a sequence of words.         *)

\* The words one line contributes in extract_words_by_script_detection
ScriptLineWords(raw, language, target_script) ==
    LET line == Strip(raw)
    IN  IF Len(line) = 0 \/ is_header_line(line) THEN << >>
        ELSE IF ~should_include_word_by_pos(line, POS_FILTERS) THEN << >>
        ELSE IF language = "source"
        THEN IF HasChar(line, 47)
             THEN SelectSeq(extract_pronunciation_word(line), is_valid_word)
             ELSE IF /\ StrIsAlpha(normalize_word(line))
                     /\ Len(line) >= 2
                     /\ \A i \in 1..Len(line) : line[i] < 256
                     /\ ~\E i \in 1..Len(line) : 1536 <= line[i] /\ line[i] <= 1791
                  THEN << line >>
                  ELSE << >>
        ELSE IF target_script \in {"arabic", "cyrillic", "devanagari", "cjk"}
        THEN IF \/ (target_script = "cjk" /\ contains_cjk(line))
                \/ (target_script # "cjk" /\ contains_script(line, target_script))
             THEN _yield_words_by_script(line, target_script)
             ELSE << >>
        ELSE IF /\ ~(HasChar(line, 47) /\
                     \E i \in 1..Len(line) :
                         line[i] \in {712, 716, 593, 603, 618, 601, 633, 952, 240})
                /\ StrIsAlpha(normalize_word(line))
             THEN << line >>
             ELSE << >>

extract_words_by_script_detection(ls, language, target_script) ==
    Flatten([k \in 1..Len(ls) |-> ScriptLineWords(ls[k], language, target_script)])

\* The words the counterpart line of a pair contributes: the split of
\* line2.replace(',', ' ').replace(';', ' '), cleaned, filtered on length
CounterpartWords(line2, min_len) ==
    LET Keep(clean) ==
            /\ Len(clean) >= min_len
            /\ StrIsAlpha(normalize_word(clean))
            /\ \A i \in 1..Len(clean) : clean[i] < 256
    IN  SelectSeq(CleanedWords(ReplaceChars(line2, {44, 59}, 32)), Keep)

\* The words iteration i of the pair loop of
\* extract_words_with_pattern_detection contributes
PairWords(raw1, raw2, language, pattern) ==
    LET line1 == Strip(raw1)
        line2 == Strip(raw2)
        has_pronunciation_1 == has_pronunciation_markers(line1)
        has_pronunciation_2 == has_pronunciation_markers(line2)
        \* the role of the pronunciation line and the role of its counterpart
        head_role  == IF pattern = "source-target" THEN "source" ELSE "target"
        other_role == IF pattern = "source-target" THEN "target" ELSE "source"
    IN  IF \/ Len(line1) = 0 \/ Len(line2) = 0
           \/ is_header_line(line1) \/ is_header_line(line2) THEN << >>
        ELSE IF pattern \notin {"source-target", "target-source"} THEN << >>
        ELSE IF ~(has_pronunciation_1 /\ ~has_pronunciation_2) THEN << >>
        ELSE IF language = head_role
        THEN IF ~should_include_word_by_pos(line1, POS_FILTERS) THEN << >>
             ELSE SelectSeq(extract_pronunciation_word(line1), is_valid_word)
        ELSE IF language = other_role
        THEN IF ~should_include_word_by_pos(line2, POS_FILTERS) THEN << >>
             ELSE CounterpartWords(line2, 2)
        ELSE << >>

\* The pair loop of extract_words_with_pattern_detection
PairwiseWords(ls, language, pattern) ==
    Flatten([k \in 1..(Len(ls) - 1) |-> PairWords(ls[k], ls[k + 1], language, pattern)])

\* A variant of the filter below without the stopword test
MultilineKeepStopwords(clean) ==
    /\ Len(clean) >= 3
    /\ StrIsAlpha(normalize_word(clean))
    /\ \A k \in 1..Len(clean) : clean[k] < 256

\* The filter of extract_multiline_format_words on a cleaned target word
MultilineKeep(clean) ==
    /\ Len(clean) >= 3
    /\ StrIsAlpha(normalize_word(clean))
    /\ \A k \in 1..Len(clean) : clean[k] < 256
    /\ Lower(clean) \notin ENGLISH_STOPWORDS

\* The loop of extract_multiline_format_words from index i on
RECURSIVE MultilineFrom(_, _, _)
MultilineFrom(ls, i, language) ==
    LET stop == Len(ls) - 2
        j    == NextNonBlank(ls, i, stop)
    IN  IF j >= stop THEN << >>
        ELSE LET line1 == Strip(At(ls, j))
                 line2 == Strip(At(ls, j + 1))
                 cleaned_line == ReplaceSub(ReplaceChars(line2, {44, 59}, 32),
                                            S(<<"2",".">>), S(<<" ">>))
             IN  IF /\ Len(line1) > 0 /\ Len(line2) > 0
                    /\ HasChar(line1, 47) /\ HasChar(line1, 60)
                    /\ ~HasChar(line2, 47) /\ ~HasChar(line2, 60)
                 THEN IF ~should_include_word_by_pos(line1, POS_FILTERS)
                      THEN MultilineFrom(ls, j + 1, language)
                      ELSE (IF language = "source"
                            THEN SelectSeq(extract_pronunciation_word(line1), is_valid_word)
                            ELSE IF language = "target"
                            THEN SelectSeq(CleanedWords(cleaned_line), MultilineKeep)
                            ELSE << >>)
                           \o MultilineFrom(ls, j + 3, language)
                 ELSE MultilineFrom(ls, j + 1, language)

\* A variant whose index moves by three whether it extracts or not
RECURSIVE MultilineStridedFrom(_, _, _)
MultilineStridedFrom(ls, i, language) ==
    IF i >= Len(ls) - 2 THEN << >>
    ELSE LET line1 == Strip(At(ls, i))
             line2 == Strip(At(ls, i + 1))
             cleaned_line == ReplaceSub(ReplaceChars(line2, {44, 59}, 32),
                                        S(<<"2",".">>), S(<<" ">>))
         IN  (IF /\ Len(line1) > 0 /\ Len(line2) > 0
                 /\ HasChar(line1, 47) /\ HasChar(line1, 60)
                 /\ ~HasChar(line2, 47) /\ ~HasChar(line2, 60)
                 /\ should_include_word_by_pos(line1, POS_FILTERS)
              THEN IF language = "source"
                   THEN SelectSeq(extract_pronunciation_word(line1), is_valid_word)
                   ELSE SelectSeq(CleanedWords(cleaned_line), MultilineKeep)
              ELSE << >>)
             \o MultilineStridedFrom(ls, i + 3, language)

multiline_fixed_stride(ls, language) == MultilineStridedFrom(ls, 0, language)

extract_multiline_format_words(ls, language) == MultilineFrom(ls, 0, language)

\* A variant that never diverts to the multiline strategy
pattern_detection_without_multiline(ls, language, pattern) ==
    PairwiseWords(ls, language, pattern)

extract_words_with_pattern_detection(ls, language, pattern) ==
    IF detect_multiline_format(ls)
    THEN extract_multiline_format_words(ls, language)
    ELSE PairwiseWords(ls, language, pattern)

\* The characters a source word may not contain in the simple and the
\* header-skip strategies: ( ) [ ] < > / \
SourceWordBanned == {40, 41, 91, 93, 60, 62, 47, 92}

\* The source word a headword line contributes in the simple and the
\* header-skip strategies
HeadwordLineWords(line) ==
    LET clean_line == clean_word(line)
    IN  IF /\ Len(clean_line) >= 1
           /\ ~\E i \in 1..Len(clean_line) : IsDigit(clean_line[i])
           /\ ~\E i \in 1..Len(clean_line) : clean_line[i] \in SourceWordBanned
           /\ should_include_word_by_pos(line, POS_FILTERS)
        THEN << clean_line >>
        ELSE << >>

\* The loop of _extract_simple_format_words with the iterator at index i
RECURSIVE SimpleFrom(_, _, _)
SimpleFrom(ls, i, language) ==
    LET j == NextNonBlank(ls, i, Len(ls))
    IN  IF j >= Len(ls) THEN << >>
        ELSE LET line == Strip(At(ls, j))
                 next_line == IF j + 1 < Len(ls) THEN Strip(At(ls, j + 1)) ELSE << >>
             IN  IF is_header_line(line)
                 THEN SimpleFrom(ls, j + 1, language)
                 ELSE (IF language = "source" THEN HeadwordLineWords(line)
                       ELSE IF Len(next_line) > 0
                       THEN extract_simple_translation_words(next_line)
                       ELSE << >>)
                      \o SimpleFrom(ls, j + 2, language)

\* A variant whose cursor moves one line after a pair, so that the
\* translation of a pair is read again as a headword
RECURSIVE SimpleSlidingFrom(_, _, _)
SimpleSlidingFrom(ls, i, language) ==
    LET j == NextNonBlank(ls, i, Len(ls))
    IN  IF j >= Len(ls) THEN << >>
        ELSE LET line == Strip(At(ls, j))
                 next_line == IF j + 1 < Len(ls) THEN Strip(At(ls, j + 1)) ELSE << >>
             IN  IF is_header_line(line)
                 THEN SimpleSlidingFrom(ls, j + 1, language)
                 ELSE (IF language = "source" THEN HeadwordLineWords(line)
                       ELSE IF Len(next_line) > 0
                       THEN extract_simple_translation_words(next_line)
                       ELSE << >>)
                      \o SimpleSlidingFrom(ls, j + 1, language)

simple_sliding_window(ls, language) == SimpleSlidingFrom(ls, 0, language)

_extract_simple_format_words(ls, language) == SimpleFrom(ls, 0, language)

\* The markers that rule a line out as the start of the entries
StartMarkers == {47, 60, 62, 42, 40, 41}

\* Whether the first loop of _extract_with_header_skip stops at index i
IsEntryStart(ls, i) ==
    LET line == Strip(At(ls, i))
    IN  /\ ~(\/ Len(line) = 0 \/ is_header_line(line) \/ contains_year(line)
             \/ Len(line) > 50 \/ HasChar(line, 58))
        /\ Len(line) <= 30
        /\ Len(normalize_word(line)) > 0
        /\ ~\E k \in 1..Len(line) : line[k] \in StartMarkers
        /\ i + 1 < Len(ls)
        /\ LET next_line == Strip(At(ls, i + 1))
           IN  Len(next_line) > 0 /\ Len(next_line) > Len(line)

\* start_idx after the first loop of _extract_with_header_skip
HeaderSkipStart(ls) ==
    LET starts == {i \in 0..(Len(ls) - 1) : IsEntryStart(ls, i)}
    IN  IF starts = {} THEN 0 ELSE MinOf(starts)

\* The second loop of _extract_with_header_skip from index i on
RECURSIVE HeaderSkipFrom(_, _, _)
HeaderSkipFrom(ls, i, language) ==
    LET stop == Len(ls) - 1
        j    == NextNonBlank(ls, i, stop)
    IN  IF j >= stop THEN << >>
        ELSE LET line == Strip(At(ls, j))
                 next_line == Strip(At(ls, j + 1))
             IN  IF Len(next_line) = 0
                 THEN HeaderSkipFrom(ls, j + 1, language)
                 ELSE (IF language = "source" THEN HeadwordLineWords(line)
                       ELSE extract_simple_translation_words(next_line))
                      \o HeaderSkipFrom(ls, j + 2, language)

\* A variant whose second loop moves one line after a pair
RECURSIVE HeaderSkipSlidingFrom(_, _, _)
HeaderSkipSlidingFrom(ls, i, language) ==
    LET stop == Len(ls) - 1
        j    == NextNonBlank(ls, i, stop)
    IN  IF j >= stop THEN << >>
        ELSE LET line == Strip(At(ls, j))
                 next_line == Strip(At(ls, j + 1))
             IN  IF Len(next_line) = 0
                 THEN HeaderSkipSlidingFrom(ls, j + 1, language)
                 ELSE (IF language = "source" THEN HeadwordLineWords(line)
                       ELSE extract_simple_translation_words(next_line))
                      \o HeaderSkipSlidingFrom(ls, j + 1, language)

header_skip_sliding_window(ls, language) ==
    HeaderSkipSlidingFrom(ls, HeaderSkipStart(ls), language)

_extract_with_header_skip(ls, language) ==
    HeaderSkipFrom(ls, HeaderSkipStart(ls), language)

-----------------------------------------------------------------------------
(* extract_words_from_gzip_content.                                        *)

OtherLanguage(language) == IF language = "source" THEN "target" ELSE "source"

\* lines = [line.rstrip('\n') for line in lines_iter]
GzipLines(lines_iter) == [k \in 1..Len(lines_iter) |-> RStripNewline(lines_iter[k])]

\* The branch extract_words_from_gzip_content takes on the corpus lines_iter
SelectedStrategy(lines_iter) ==
    LET ls == GzipLines(lines_iter) IN
    IF detect_target_language_script(ls, SCRIPT_SAMPLE_SIZE)
           \in {"arabic", "cyrillic", "cjk", "devanagari"}
    THEN "script-driven"
    ELSE IF detect_alternating_pattern(ls) \in {"source-target", "target-source"}
    THEN "alternating"
    ELSE IF detect_simple_format(ls) THEN "simple"
    ELSE IF detect_multiline_format(ls) THEN "multiline"
    ELSE "fallback"

\* The branches below the script check
LatinBranches(ls, language, dz, swap) ==
    LET pattern == detect_alternating_pattern(ls)
    IN  IF pattern \in {"source-target", "target-source"}
        THEN IF swap /\ dz /\ pattern = "target-source"
             THEN extract_words_with_pattern_detection(ls, OtherLanguage(language), pattern)
             ELSE extract_words_with_pattern_detection(ls, language, pattern)
        ELSE IF detect_simple_format(ls)
        THEN _extract_simple_format_words(ls, language)
        ELSE IF detect_multiline_format(ls)
        THEN extract_multiline_format_words(ls, language)
        ELSE _extract_with_header_skip(ls, language)

\* A variant that looks for the alternating pattern before the script
gzip_pattern_before_script(lines_iter, language, dz) ==
    LET ls == GzipLines(lines_iter)
        target_script == detect_target_language_script(ls, SCRIPT_SAMPLE_SIZE)
        pattern == detect_alternating_pattern(ls)
    IN  IF pattern \in {"source-target", "target-source"}
        THEN LatinBranches(ls, language, dz, TRUE)
        ELSE IF target_script \in {"arabic", "cyrillic", "cjk", "devanagari"}
        THEN extract_words_by_script_detection(ls, language, target_script)
        ELSE LatinBranches(ls, language, dz, TRUE)

\* A variant that returns no word when no detector matches
gzip_without_fallback(lines_iter, language, dz) ==
    LET ls == GzipLines(lines_iter)
        target_script == detect_target_language_script(ls, SCRIPT_SAMPLE_SIZE)
        pattern == detect_alternating_pattern(ls)
    IN  IF target_script \in {"arabic", "cyrillic", "cjk", "devanagari"}
        THEN extract_words_by_script_detection(ls, language, target_script)
        ELSE IF pattern \in {"source-target", "target-source"}
             \/ detect_simple_format(ls) \/ detect_multiline_format(ls)
        THEN LatinBranches(ls, language, dz, TRUE)
        ELSE << >>

\* A variant that passes the requested role on whatever the container
gzip_without_role_swap(lines_iter, language, dz) ==
    LET ls == GzipLines(lines_iter)
        target_script == detect_target_language_script(ls, SCRIPT_SAMPLE_SIZE)
    IN  IF target_script \in {"arabic", "cyrillic", "cjk", "devanagari"}
        THEN extract_words_by_script_detection(ls, language, target_script)
        ELSE LatinBranches(ls, language, dz, FALSE)

extract_words_from_gzip_content(lines_iter, language, dz) ==
    LET ls == GzipLines(lines_iter)
        target_script == detect_target_language_script(ls, SCRIPT_SAMPLE_SIZE)
        pattern == detect_alternating_pattern(ls)
    IN  IF target_script \in {"arabic", "cyrillic", "cjk", "devanagari"}
        THEN extract_words_by_script_detection(ls, language, target_script)
        ELSE IF pattern \in {"source-target", "target-source"}
        THEN IF dz /\ pattern = "target-source"
             THEN extract_words_with_pattern_detection(ls, OtherLanguage(language), pattern)
             ELSE extract_words_with_pattern_detection(ls, language, pattern)
        ELSE IF detect_simple_format(ls)
        THEN _extract_simple_format_words(ls, language)
        ELSE IF detect_multiline_format(ls)
        THEN extract_multiline_format_words(ls, language)
        ELSE _extract_with_header_skip(ls, language)

-----------------------------------------------------------------------------
(* Line corpora.  A corpus is a header followed by runs of one entry       *)
(* repeated; an entry is the one, two or three lines of a dictionary       *)
(* article.                                                                *)

\* The longest run of one entry
MaxRun == 5

\* n blank lines
Blank(n) == [i \in 1..n |-> << >>]

\* A header of n lines: the database line of a dictd file, then blank lines
Header(n) ==
    IF n = 0 THEN << >>
    ELSE << S(<<"0","0","-","d","a","t","a","b","a","s","e","-","s","h","o","r","t">>) >> \o Blank(n - 1)

RECURSIVE Repeat(_, _)
Repeat(entry, n) == IF n = 0 THEN << >> ELSE entry \o Repeat(entry, n - 1)

Roles == {"source", "target"}

\* The lines of the entries.  HeadCasa is casa with its pronunciation /'kasa/
\* and the tag <n>, HeadWord is word with its pronunciation and the tag <n>.
HeadCasa == S(<<"c","a","s","a"," ","/","ipa_stress","k","a","s","a","/"," ","<","n",">">>)
LineHouse == S(<<"h","o","u","s","e">>)
HeadWord == S(<<"w","o","r","d"," ","/","w","ipa_rev_e","ipa_long","d","/"," ","<","n",">">>)
LinePalabraVocablo == S(<<"p","a","l","a","b","r","a",","," ","v","o","c","a","b","l","o">>)
LinePalabra == S(<<"p","a","l","a","b","r","a">>)
ProseTerm == S(<<"A"," ","t","e","r","m",".">>)
ProseTermUsed == S(<<"A"," ","t","e","r","m"," ","u","s","e","d"," ","t","o"," ","d","e","s","c","r","i","b","e",".">>)

\* A headword with its pronunciation and part of speech, then its translation
PairST == << HeadCasa, LineHouse >>
\* The translation first
PairTS == << LineHouse, HeadCasa >>
\* Headword, translations (a stopword among them), definition
TripleProse == << HeadWord, S(<<"t","h","e",","," ","p","a","l","a","b","r","a">>), ProseTerm >>
\* The same layout with a pronunciation that is no pronunciation marker
TripleNoMarker == << S(<<"a","b"," ","/","1","/"," ","<","n",">">>), S(<<"p","a","l","a","b","r","a",","," ","s","i">>), ProseTerm >>
\* The same layout with an unclosed part-of-speech tag
TripleOpenTag == << S(<<"a","b"," ","/"," ","<","n">>), LinePalabra, ProseTerm >>
\* A plain headword and its translation
PairPlain == << S(<<"a","v">>), S(<<"w","a","t","e","r",","," ","s","e","a">>) >>
\* A Latin headword with its Cyrillic translation
PairCyrillic == << S(<<"d","o","m"," ","/","d","o","m","/"," ","<","n",">">>), S(<<"cy_d","cy_o","cy_m">>) >>

Entries ==
    {PairST, PairTS, TripleProse, TripleNoMarker, TripleOpenTag, PairPlain, PairCyrillic}

-----------------------------------------------------------------------------
(* The pipeline on one document: the corpus is supplied, then              *)
(* extract_words_from_gzip_content is called once.                         *)

\* Nothing has been saved and no run over the dictionary files has begun
RunIdle ==
    /\ arg = << >>
    /\ output_file = << >>
    /\ dict_files = << >>
    /\ attempted = << >>
    /\ success_count = 0

\* The state in which process_dictionary_file has read nothing but the
\* header
Start(headers) ==
    /\ lines \in headers
    /\ pc = "first"
    /\ extract_language = "source"
    /\ is_dz_file = FALSE
    /\ words = << >>
    /\ strategy = "none"
    /\ posline = << >>
    /\ filters = POS_FILTERS
    /\ ret = "none"
    /\ RunIdle

Init == Start({Header(0), Header(ALT_START)})

\* The file read supplies a run of 1..MaxRun copies of an entry
AddRun(entries, from, to) ==
    /\ pc = from
    /\ \E e \in entries : \E n \in 1..MaxRun : lines' = lines \o Repeat(e, n)
    /\ pc' = to
    /\ UNCHANGED <<extract_language, is_dz_file, words, strategy, posline, filters, ret>>
    /\ UNCHANGED runVars

FirstRun == AddRun(Entries, "first", "second")
SecondRun == AddRun(Entries, "second", "ready")

\* extract_words_from_gzip_content(lines, role, is_dz_file); ret records the
\* pattern the alternating detector finds in the corpus
Extract ==
    /\ pc \in {"first", "second", "ready"}
    /\ \E role \in Roles : \E dz \in BOOLEAN :
        /\ extract_language' = role
        /\ is_dz_file' = dz
        /\ words' = extract_words_from_gzip_content(lines, role, dz)
    /\ strategy' = SelectedStrategy(lines)
    /\ ret' = detect_alternating_pattern(GzipLines(lines))
    /\ pc' = "done"
    /\ UNCHANGED <<lines, posline, filters>>
    /\ UNCHANGED runVars

Next == FirstRun \/ SecondRun \/ Extract

Spec == Init /\ [][Next]_vars

\* The corpus as the detectors see it, its script, and the role the pattern
\* extraction is run for
Doc == GzipLines(lines)
DocScript == detect_target_language_script(Doc, SCRIPT_SAMPLE_SIZE)
NonLatinScripts == {"arabic", "cyrillic", "cjk", "devanagari"}
Patterns == {"source-target", "target-source"}
EffectiveRole ==
    IF is_dz_file /\ ret = "target-source" THEN OtherLanguage(extract_language)
    ELSE extract_language

\* C1: when the script detected over the first 500 lines is not latin, the
\* call returns exactly the words of the script-driven strategy for that
\* script, whatever pattern evidence the corpus holds.
C1_ScriptDrivenOverrides ==
    (pc = "done" /\ DocScript \in NonLatinScripts)
        => words = extract_words_by_script_detection(Doc, extract_language, DocScript)

\* A Cyrillic corpus that also holds source-target evidence, and on which the
\* pattern extraction would have returned other words
C1_Witness ==
    /\ pc = "done"
    /\ DocScript = "cyrillic"
    /\ ret = "source-target"
    /\ words # << >>
    /\ words # extract_words_with_pattern_detection(Doc, extract_language, ret)

\* The words of the strategy of the first satisfied heuristic, in the order
\* script, alternating, simple, multiline, fallback; alternating stands for
\* the words of the alternating branch.
FirstMatchWords(alternating) ==
    IF DocScript \in NonLatinScripts
    THEN extract_words_by_script_detection(Doc, extract_language, DocScript)
    ELSE IF ret \in Patterns THEN alternating
    ELSE IF detect_simple_format(Doc)
    THEN _extract_simple_format_words(Doc, extract_language)
    ELSE IF detect_multiline_format(Doc)
    THEN extract_multiline_format_words(Doc, extract_language)
    ELSE _extract_with_header_skip(Doc, extract_language)

\* C2 as stated: the first satisfied heuristic selects the strategy, and a
\* corpus classified source-target or target-source is extracted by the
\* pairwise strategy even when the multiline detector is satisfied too.
C2_FirstMatchPairwise ==
    pc = "done" => words = FirstMatchWords(PairwiseWords(Doc, EffectiveRole, ret))

\* C2 amended: the first satisfied heuristic selects the strategy, except
\* that a corpus classified source-target or target-source on which the
\* multiline detector is satisfied too is extracted by the multiline
\* strategy, and by the pairwise strategy otherwise.
C2_FirstMatchWithDiversion ==
    pc = "done" =>
        words = FirstMatchWords(IF detect_multiline_format(Doc)
                                THEN extract_multiline_format_words(Doc, EffectiveRole)
                                ELSE PairwiseWords(Doc, EffectiveRole, ret))

\* A source-target corpus on which the multiline detector is satisfied and
\* the two strategies disagree
C2_Witness ==
    /\ pc = "done"
    /\ DocScript = "latin"
    /\ ret = "source-target"
    /\ detect_multiline_format(Doc)
    /\ words = extract_multiline_format_words(Doc, extract_language)
    /\ words # PairwiseWords(Doc, extract_language, ret)

\* C9: on a Latin-script corpus with an alternating pattern, a .dz input
\* with the pattern target-source is extracted for the opposite role, and
\* every other input for the requested role.
C9_RoleSwap ==
    (pc = "done" /\ DocScript = "latin" /\ ret \in Patterns) =>
        /\ (is_dz_file /\ ret = "target-source") =>
              words = extract_words_with_pattern_detection(
                          Doc, OtherLanguage(extract_language), ret)
        /\ ~(is_dz_file /\ ret = "target-source") =>
              words = extract_words_with_pattern_detection(Doc, extract_language, ret)

\* A .dz target-source corpus where the swap shows in the words returned
C9_Witness ==
    /\ pc = "done"
    /\ DocScript = "latin"
    /\ is_dz_file
    /\ ret = "target-source"
    /\ words # << >>
    /\ words # extract_words_with_pattern_detection(Doc, extract_language, ret)

-----------------------------------------------------------------------------
(* detect_target_language_script on corpora of single-script lines.        *)

LineLatin == S(<<"a","b","c"," ","a","b","c">>)
LineCyrillic == S(<<"cy_d","cy_o","cy_m">>)
LineArabic == S(<<"ar_b","ar_y","ar_t">>)
LineDevanagari == S(<<"dv_gha","dv_ra">>)
LineCjk == S(<<"cjk_house">>)
\* Latin, Cyrillic and Hiragana characters on one line
LineMixed == S(<<"a"," ","cy_d","a"," ","hira_i">>)

ScriptEntries ==
    { << LineLatin >>, << LineCyrillic >>, << LineArabic >>, << LineDevanagari >>,
      << LineCjk >>, << LineMixed >> }

InitScript ==
    Start({Header(0), Header(SCRIPT_SAMPLE_SIZE - 2), Header(SCRIPT_SAMPLE_SIZE)})

ScriptFirstRun == AddRun(ScriptEntries, "first", "second")
ScriptSecondRun == AddRun(ScriptEntries, "second", "ready")

\* detect_target_language_script(lines)
DetectScript ==
    /\ pc \in {"first", "second", "ready"}
    /\ ret' = detect_target_language_script(lines, SCRIPT_SAMPLE_SIZE)
    /\ pc' = "done"
    /\ UNCHANGED <<lines, extract_language, is_dz_file, words, strategy, posline, filters>>
    /\ UNCHANGED runVars

NextScript == ScriptFirstRun \/ ScriptSecondRun \/ DetectScript

SpecScript == InitScript /\ [][NextScript]_vars

\* The positions <<line, column>> of the characters of the first 500 lines
SampledPositions ==
    UNION { {<< k, i >> : i \in 1..Len(lines[k])} : k \in 1..Minimum(500, Len(lines)) }

\* Whether a character falls in the range of a tracked non-Latin script
InTrackedRange(char, script) ==
    IF script = "cjk" THEN is_cjk_character(char) ELSE is_script_character(char, script)

\* The number of sampled characters in the range of a script
TrackedCount(script) ==
    Cardinality({p \in SampledPositions : InTrackedRange(lines[p[1]][p[2]], script)})

\* The number of sampled printable ASCII characters
LatinCount ==
    Cardinality({p \in SampledPositions :
                    32 <= lines[p[1]][p[2]] /\ lines[p[1]][p[2]] <= 127})

\* C3: detect_target_language_script returns latin exactly when no sampled
\* character falls in a tracked non-Latin range, and otherwise a non-Latin
\* script whose count is maximal among the non-Latin scripts.
C3_LatinDiscarded ==
    pc = "done" =>
        /\ ret = "latin" <=> \A s \in NonLatinScripts : TrackedCount(s) = 0
        /\ ret # "latin" =>
              /\ ret \in NonLatinScripts
              /\ \A s \in NonLatinScripts : TrackedCount(s) <= TrackedCount(ret)

\* Cyrillic wins although the sample holds more Latin characters, and Arabic
\* lines past the sample do not count
C3_Witness ==
    /\ pc = "done"
    /\ ret = "cyrillic"
    /\ LatinCount > TrackedCount("cyrillic")
    /\ TrackedCount("arabic") = 0
    /\ \E k \in 501..Len(lines) : contains_script(lines[k], "arabic")

-----------------------------------------------------------------------------
(* detect_alternating_pattern on corpora of pairs around the window.       *)

\* A line that is no evidence with either neighbour
LineNoEvidence == S(<<"x","1">>)

\* Entries that give one sample each: source-target, target-source
EntryST == << HeadCasa, LineHouse, LineNoEvidence >>
EntryTS == << LineHouse, HeadCasa, LineNoEvidence >>

AltEntries == {EntryST, EntryTS, PairST, PairTS, << LineNoEvidence >>}

InitAlternating ==
    Start({Header(ALT_START - 1), Header(ALT_START), Header(ALT_END - 1), Header(ALT_END)})

AltFirstRun == AddRun(AltEntries, "first", "second")
AltSecondRun == AddRun(AltEntries, "second", "ready")

\* detect_alternating_pattern(lines)
DetectAlternating ==
    /\ pc \in {"first", "second", "ready"}
    /\ ret' = detect_alternating_pattern(lines)
    /\ pc' = "done"
    /\ UNCHANGED <<lines, extract_language, is_dz_file, words, strategy, posline, filters>>
    /\ UNCHANGED runVars

NextAlternating == AltFirstRun \/ AltSecondRun \/ DetectAlternating

SpecAlternating == InitAlternating /\ [][NextAlternating]_vars

\* The evidence of the pair of lines at the 0-based indexes (i, i + 1)
EvidenceAt(i) == AltSample(Strip(At(lines, i)), Strip(At(lines, i + 1)))

\* The indexes in [50,200) whose pair is evidence, and the first five of them
EvidenceIndexes == {i \in 50..199 : i + 1 < Len(lines) /\ EvidenceAt(i) # << >>}
CollectedIndexes ==
    {i \in EvidenceIndexes : Cardinality({j \in EvidenceIndexes : j < i}) < 5}
CollectedVotes(v) == Cardinality({i \in CollectedIndexes : EvidenceAt(i) = << v >>})
AllVotes(v) == Cardinality({i \in EvidenceIndexes : EvidenceAt(i) = << v >>})

\* C4: the detector judges on the first five evidence samples of the pairs
\* (i, i + 1), i in [50,200): the strict majority, or unknown on a tie or no
\* evidence.
C4_MajorityOfFirstFive ==
    pc = "done" =>
        ret = IF CollectedVotes("source-target") > CollectedVotes("target-source")
              THEN "source-target"
              ELSE IF CollectedVotes("target-source") > CollectedVotes("source-target")
              THEN "target-source"
              ELSE "unknown"

\* More than five samples in the window, and the samples past the fifth
\* would have turned the majority
C4_Witness ==
    /\ pc = "done"
    /\ Cardinality(EvidenceIndexes) > 5
    /\ ret = "source-target"
    /\ AllVotes("target-source") > AllVotes("source-target")

-----------------------------------------------------------------------------
(* The 60-line corpus: a 50-line prefix, casa / house three times at the   *)
(* indexes 50..55, and four more lines.                                    *)

\* casa with a pronunciation in plain letters
HeadCasaPlain == S(<<"c","a","s","a"," ","/","k","a","s","a","/"," ","<","n",">">>)

RoundTripPrefixes ==
    { Blank(ALT_START), Header(ALT_START), Header(ALT_START - 2) \o PairTS }

RoundTripFillers == { << >>, ProseTerm, HeadWord, LineCyrillic }

InitRoundTrip ==
    /\ \E prefix \in RoundTripPrefixes : \E head \in {HeadCasa, HeadCasaPlain} :
           lines = prefix \o Repeat(<< head, LineHouse >>, 3)
    /\ pc = "first"
    /\ extract_language = "source"
    /\ is_dz_file = FALSE
    /\ words = << >>
    /\ strategy = "none"
    /\ posline = << >>
    /\ filters = POS_FILTERS
    /\ ret = "none"
    /\ RunIdle

\* The file read supplies one of the last four lines
AddFiller ==
    /\ pc = "first"
    /\ Len(lines) < 60
    /\ \E l \in RoundTripFillers : lines' = Append(lines, l)
    /\ UNCHANGED <<extract_language, is_dz_file, pc, words, strategy, posline, filters, ret>>
    /\ UNCHANGED runVars

\* extract_words_from_gzip_content on the complete corpus
ExtractSixty == Len(lines) = 60 /\ Extract

NextRoundTrip == AddFiller \/ ExtractSixty

SpecRoundTrip == InitRoundTrip /\ [][NextRoundTrip]_vars

\* word in the list returned
InWords(word) == \E k \in 1..Len(words) : words[k] = word

\* C5: a Latin-script 60-line corpus with the casa headword line at 50, 52,
\* 54 and house at 51, 53, 55 is classified source-target; the source role
\* returns casa and the target role returns house.
C5_CasaHouse ==
    (pc = "done" /\ DocScript = "latin") =>
        /\ ret = "source-target"
        /\ extract_language = "source" => InWords(S(<<"c","a","s","a">>))
        /\ extract_language = "target" => InWords(S(<<"h","o","u","s","e">>))

\* Such a corpus with target-source evidence before the window and a
\* pronunciation line after the pairs
C5_Witness ==
    /\ pc = "done"
    /\ DocScript = "latin"
    /\ At(lines, 49) = HeadCasa
    /\ At(lines, 56) = HeadWord
    /\ extract_language = "target"
    /\ is_dz_file
    /\ InWords(S(<<"h","o","u","s","e">>))

-----------------------------------------------------------------------------
(* The layout selection on corpora of plain headword lines.                *)

LineAv == S(<<"a","v">>)

\* A headword on its own, a headword before a blank line, a hyphenated
\* headword ending in a colon with its translation, and a headword with
\* pronunciation and tag before a blank line
SingleAv == << LineAv >>
PairAvBlank == << LineAv, << >> >>
PairHyphenColon == << S(<<"-","a",":">>), S(<<"b">>) >>
PairHeadBlank == << HeadWord, << >> >>

SimpleEntries == {PairPlain, SingleAv, PairAvBlank, PairHyphenColon, PairHeadBlank, PairST}

InitSimple ==
    Start({Header(SIMPLE_START), Header(SIMPLE_END - 3), Header(SIMPLE_END - 2)})

SimpleFirstRun == AddRun(SimpleEntries, "first", "second")
SimpleSecondRun == AddRun(SimpleEntries, "second", "ready")

\* The layout selection of extract_words_from_gzip_content(lines, ...); ret
\* records the pattern the alternating detector finds in the corpus
Classify ==
    /\ pc \in {"first", "second", "ready"}
    /\ strategy' = SelectedStrategy(lines)
    /\ ret' = detect_alternating_pattern(GzipLines(lines))
    /\ pc' = "done"
    /\ UNCHANGED <<lines, extract_language, is_dz_file, words, posline, filters>>
    /\ UNCHANGED runVars

NextSimple == SimpleFirstRun \/ SimpleSecondRun \/ Classify

SpecSimple == InitSimple /\ [][NextSimple]_vars

\* The line at the 0-based index i of the corpus as the detectors see it,
\* and the same line stripped
DocAt(i) == RStripNewline(At(lines, i))
DocLine(i) == Strip(DocAt(i))

\* A line qualifies as the specification states it: not blank, no header line, no year
\* token, no colon unless it starts with a hyphen, none of the markers
\* / < > 1. 2. * nor a URL or technical token, at most 30 characters
QualifiesAsStated(line) ==
    /\ line # << >>
    /\ ~is_header_line(line)
    /\ ~contains_year(line)
    /\ HasChar(line, 58) => StartsWith(line, S(<<"-">>))
    /\ \A marker \in {S(<<"/">>), S(<<"<">>), S(<<">">>), S(<<"1",".">>), S(<<"2",".">>), S(<<"*">>)} : ~Contains(line, marker)
    /\ \A token \in SimpleTechnicalWords : ~Contains(Lower(line), token)
    /\ Len(line) <= 30

StatedCount ==
    Cardinality({i \in 50..399 : i < Len(lines) /\ QualifiesAsStated(DocLine(i))})

\* The same, and the line does not end in a colon and is followed by a line
\* that is not blank
QualifiesFollowed(i) ==
    /\ QualifiesAsStated(DocLine(i))
    /\ ~EndsWith(DocLine(i), S(<<":">>))
    /\ i + 1 < Len(lines)
    /\ DocLine(i + 1) # << >>

FollowedCount ==
    Cardinality({i \in 50..399 : i < Len(lines) /\ QualifiesFollowed(i)})

\* No line among the first 200 holds a slash and both angle brackets
NoPronunciationAndTag ==
    \A i \in 0..(Minimum(200, Len(lines)) - 1) :
        ~(HasChar(DocAt(i), 47) /\ HasChar(DocAt(i), 60) /\ HasChar(DocAt(i), 62))

\* C6 as stated: on a Latin-script corpus on which the alternating step
\* defers, three qualifying lines with index in [50,400) select the simple
\* layout.
C6_ThreeQualifyingLines ==
    (pc = "done" /\ DocScript = "latin" /\ ret \notin Patterns /\ StatedCount >= 3)
        => strategy = "simple"

\* C6 amended: on such a corpus the simple layout is selected whenever no
\* line among the first 200 holds a slash and both angle brackets and at
\* least three lines with index in [50,400) qualify, where a qualifying line
\* moreover does not end in a colon and is followed by a line that is not
\* blank.
C6_ThreeFollowedLines ==
    (/\ pc = "done" /\ DocScript = "latin" /\ ret \notin Patterns
     /\ NoPronunciationAndTag /\ FollowedCount >= 3)
        => strategy = "simple"

\* Exactly three qualifying lines, the last of them at index 399
C6_Witness ==
    /\ pc = "done"
    /\ strategy = "simple"
    /\ FollowedCount = 3
    /\ Len(lines) > 400
    /\ QualifiesFollowed(399)

-----------------------------------------------------------------------------
(* detect_multiline_format on corpora of triples around the window.        *)

LineNineTokens == S(<<"o","n","e"," ","t","w","o"," ","t","h","r","e","e"," ","f","o","u","r"," ","f","i","v","e"," ","s","i","x"," ","s","e","v","e","n"," ","e","i","g","h","t"," ","n","i","n","e">>)
LineEightTokens == S(<<"o","n","e"," ","t","w","o"," ","t","h","r","e","e"," ","f","o","u","r"," ","f","i","v","e"," ","s","i","x"," ","s","e","v","e","n"," ","e","i","g","h","t">>)

\* Triples whose first line has no opening angle bracket, whose translation
\* carries a tag, whose translation is blank, whose definition is nine
\* tokens without a period, and whose definition is eight
TripleCloseOnly == << S(<<"a","b"," ","/","1","/"," ","n",">">>), LinePalabra, ProseTerm >>
TripleTaggedTranslation == << HeadWord, S(<<"p","a","l","a","b","r","a"," ","<","f",">">>), ProseTerm >>
TripleBlankTranslation == << HeadWord, << >>, ProseTerm >>
TripleNineTokens == << HeadWord, LinePalabra, LineNineTokens >>
TripleEightTokens == << HeadWord, LinePalabra, LineEightTokens >>

MultiEntries ==
    { TripleProse, TripleCloseOnly, TripleTaggedTranslation, TripleBlankTranslation,
      TripleNineTokens, TripleEightTokens }

InitMultiline ==
    Start({ Header(MULTI_START - 1), Header(MULTI_START),
            Header(MULTI_END - 13), Header(MULTI_END - 12) })

MultiFirstRun == AddRun(MultiEntries, "first", "second")
MultiSecondRun == AddRun(MultiEntries, "second", "ready")

\* detect_multiline_format(lines)
DetectMultiline ==
    /\ pc \in {"first", "second", "ready"}
    /\ ret' = detect_multiline_format(lines)
    /\ pc' = "done"
    /\ UNCHANGED <<lines, extract_language, is_dz_file, words, strategy, posline, filters>>
    /\ UNCHANGED runVars

NextMultiline == MultiFirstRun \/ MultiSecondRun \/ DetectMultiline

SpecMultiline == InitMultiline /\ [][NextMultiline]_vars

\* The stripped line at the 0-based index i
StrippedLine(i) == Strip(At(lines, i))

\* A triple qualifies as the specification states it
TripleAsStated(i) ==
    /\ HasChar(StrippedLine(i), 47)
    /\ HasChar(StrippedLine(i), 60) \/ HasChar(StrippedLine(i), 62)
    /\ ~HasChar(StrippedLine(i + 1), 47)
    /\ ~HasChar(StrippedLine(i + 1), 60) /\ ~HasChar(StrippedLine(i + 1), 62)
    /\ HasChar(StrippedLine(i + 2), 46) \/ TokenCount(StrippedLine(i + 2)) > 8

\* A triple qualifies if line 1 holds a slash and an opening angle bracket,
\* line 2 is not blank and holds no slash, and line 3 holds a period or has
\* more than 8 tokens
TripleAsScanned(i) ==
    /\ HasChar(StrippedLine(i), 47)
    /\ HasChar(StrippedLine(i), 60)
    /\ StrippedLine(i + 1) # << >>
    /\ ~HasChar(StrippedLine(i + 1), 47)
    /\ HasChar(StrippedLine(i + 2), 46) \/ TokenCount(StrippedLine(i + 2)) > 8

StatedTriples == {i \in 50..149 : i + 2 < Len(lines) /\ TripleAsStated(i)}
ScannedTriples == {i \in 50..149 : i + 2 < Len(lines) /\ TripleAsScanned(i)}

\* C7 as stated: the detector answers true exactly when five triples with
\* i in [50,150) have a slash and an angle bracket on line 1, neither on
\* line 2, and a period or more than 8 tokens on line 3.
C7_FiveStatedTriples ==
    pc = "done" => (ret <=> Cardinality(StatedTriples) >= 5)

\* C7 amended: the detector answers true exactly when five triples with i in
\* [50,150) have a slash and an opening angle bracket on line 1, a line 2
\* that is not blank and holds no slash, and a period or more than 8 tokens
\* on line 3.
C7_FiveScannedTriples ==
    pc = "done" => (ret <=> Cardinality(ScannedTriples) >= 5)

\* Five triples counted, the last at index 149, none of which qualifies as
\* stated
C7_Witness ==
    /\ pc = "done"
    /\ ret = TRUE
    /\ Cardinality(ScannedTriples) = 5
    /\ 149 \in ScannedTriples
    /\ StatedTriples = {}

-----------------------------------------------------------------------------
(* The pipeline on corpora of word / palabra, vocablo / definition         *)
(* triples.                                                                *)

LineStopwords == S(<<"T","h","e",","," ","o","f",","," ","p","a","l","a","b","r","a">>)

TripleDefinition == << HeadWord, LinePalabraVocablo, ProseTermUsed >>
TripleStopwords == << HeadWord, LineStopwords, ProseTerm >>

DefinitionEntries == {TripleDefinition, TripleStopwords, PairTS, PairCyrillic}

InitDefinitions ==
    Start({ Header(MULTI_START - 1), Header(MULTI_START),
            Header(MULTI_END - 13), Header(MULTI_END - 12) })

DefinitionFirstRun == AddRun(DefinitionEntries, "first", "second")
DefinitionSecondRun == AddRun(DefinitionEntries, "second", "ready")

NextDefinitions == DefinitionFirstRun \/ DefinitionSecondRun \/ Extract

SpecDefinitions == InitDefinitions /\ [][NextDefinitions]_vars

\* Five consecutive triples of the form (word with pronunciation and <n>,
\* palabra, vocablo, a line ending in a period) from the 0-based index s on
FiveTriplesAt(s) ==
    \A k \in 0..4 :
        /\ s + 3 * k + 2 < Len(lines)
        /\ At(lines, s + 3 * k) = HeadWord
        /\ At(lines, s + 3 * k + 1) = LinePalabraVocablo
        /\ EndsWith(At(lines, s + 3 * k + 2), S(<<".">>))

\* Every word returned has at least 3 characters and is no English stopword
NoShortWordNoStopword ==
    \A k \in 1..Len(words) :
        Len(words[k]) >= 3 /\ Lower(words[k]) \notin ENGLISH_STOPWORDS

\* C8 as stated: any corpus with five such consecutive triples is classified
\* multiline (the detector is satisfied and the multiline strategy produces
\* the words), and its target-role extraction keeps palabra and vocablo and
\* returns no word shorter than 3 and no English stopword.
C8_AnyFiveTriples ==
    (pc = "done" /\ \E s \in 0..(Len(lines) - 15) : FiveTriplesAt(s)) =>
        /\ detect_multiline_format(Doc)
        /\ words = extract_multiline_format_words(Doc, EffectiveRole)
        /\ extract_language = "target" =>
              /\ InWords(S(<<"p","a","l","a","b","r","a">>)) /\ InWords(S(<<"v","o","c","a","b","l","o">>))
              /\ NoShortWordNoStopword

\* C8 amended: a Latin-script corpus with five such consecutive triples at
\* indexes within [50,150) is classified multiline (the detector is
\* satisfied and the multiline strategy produces the words), and its
\* target-role extraction, unless the input is a .dz file with the pattern
\* target-source, keeps palabra and vocablo and returns no word shorter
\* than 3 and no English stopword.
C8_FiveTriplesInWindow ==
    (pc = "done" /\ DocScript = "latin" /\ \E s \in 50..137 : FiveTriplesAt(s)) =>
        /\ detect_multiline_format(Doc)
        /\ words = extract_multiline_format_words(Doc, EffectiveRole)
        /\ (extract_language = "target" /\ ~(is_dz_file /\ ret = "target-source")) =>
              /\ InWords(S(<<"p","a","l","a","b","r","a">>)) /\ InWords(S(<<"v","o","c","a","b","l","o">>))
              /\ NoShortWordNoStopword

\* The five triples end the window, a line of stopwords precedes them, and
\* the target words are returned without the stopwords
C8_Witness ==
    /\ pc = "done"
    /\ DocScript = "latin"
    /\ FiveTriplesAt(137)
    /\ extract_language = "target"
    /\ \E k \in 1..Len(lines) : lines[k] = LineStopwords
    /\ InWords(S(<<"v","o","c","a","b","l","o">>))
    /\ NoShortWordNoStopword

-----------------------------------------------------------------------------
(* should_include_word_by_pos on tagged lines and filter configurations.   *)

PosLines ==
    { S(<<"c","a","s","a">>), S(<<"c","a","s","a"," ","<","n",">">>), S(<<"c","a","s","a","s"," ","<","p","l",">">>), S(<<"c","a","s","a","s"," ","<","n",">"," ","<","p","l",">">>), S(<<"c","a","s","a","s"," ","<","n",","," ","p","l",">">>),
      S(<<"c","a","s","a","s"," ","<","P","L",">"," ","<","v",">">>), S(<<"x"," ","<","x","y","z",">">>), S(<<"x"," ","<",">"," ","y">>), S(<<"a"," ","<"," ","b">>), S(<<"x"," ","<","a","d","j",">">>),
      S(<<"x"," ","<","v",","," ","t","r","a","n","s",">">>), S(<<"x"," ","<","a","r","t",">">>) }

\* Filter configurations: the inclusion list empty, of the program, or of
\* the plural alone, with skip_plurals set or not, and configurations that
\* lack a key
FilterChoices ==
    { [include |-> i, skip_plurals |-> b] :
          i \in { {}, POS_FILTERS.include, {S(<<"p","l">>)}, {S(<<"v">>)} }, b \in BOOLEAN }
    \cup { [include |-> POS_FILTERS.include], [include |-> {S(<<"p","l">>)}],
           [skip_plurals |-> TRUE], [skip_plurals |-> FALSE] }

InitPos ==
    /\ posline \in PosLines
    /\ filters \in FilterChoices
    /\ pc = "first"
    /\ lines = << >>
    /\ extract_language = "source"
    /\ is_dz_file = FALSE
    /\ words = << >>
    /\ strategy = "none"
    /\ ret = "none"
    /\ RunIdle

\* should_include_word_by_pos(posline, filters)
Decide ==
    /\ pc = "first"
    /\ ret' = should_include_word_by_pos(posline, filters)
    /\ pc' = "done"
    /\ UNCHANGED <<lines, extract_language, is_dz_file, words, strategy, posline, filters>>
    /\ UNCHANGED runVars

NextPos == Decide

SpecPos == InitPos /\ [][NextPos]_vars

\* The configured inclusion list, empty when the key is missing
InclusionList == IF "include" \in DOMAIN filters THEN filters.include ELSE {}
SkipPlurals == "skip_plurals" \in DOMAIN filters /\ filters.skip_plurals

\* The base types of all the tags of the line
TagTypes ==
    UNION { { extract_base_pos_types(extract_pos_tags(posline)[k])[t] :
                t \in 1..Len(extract_base_pos_types(extract_pos_tags(posline)[k])) } :
            k \in 1..Len(extract_pos_tags(posline)) }

\* C10: no inclusion list, include; no tag on the line, include; skip_plurals
\* and a plural among the base types of a tag, exclude; otherwise include
\* exactly when a base type of a tag is in the inclusion list.
C10_DecisionOrder ==
    pc = "done" =>
        ret = IF InclusionList = {} THEN TRUE
              ELSE IF extract_pos_tags(posline) = << >> THEN TRUE
              ELSE IF SkipPlurals /\ S(<<"p","l">>) \in TagTypes THEN FALSE
              ELSE TagTypes \cap InclusionList # {}

\* A line tagged noun and plural is excluded under skip_plurals although the
\* noun is in the inclusion list
C10_Witness ==
    /\ pc = "done"
    /\ posline = S(<<"c","a","s","a","s"," ","<","n",">"," ","<","p","l",">">>)
    /\ SkipPlurals
    /\ S(<<"n">>) \in InclusionList
    /\ ret = FALSE

-----------------------------------------------------------------------------
(* The part-of-speech filter in the extraction strategies: corpora of      *)
(* entries whose headword line is tagged <n> (casa, word, av) and of       *)
(* entries whose headword line is tagged <pl> (casas), each with words of  *)
(* its own.                                                                *)

HeadCasasPlural == S(<<"c","a","s","a","s"," ","/","ipa_stress","k","a","s","a","s","/"," ","<","p","l",">">>)
HeadCasasPlain == S(<<"c","a","s","a","s"," ","<","p","l",">">>)
LineHouses == S(<<"h","o","u","s","e","s">>)
LineCyrillicPlural == S(<<"cy_m","cy_o","cy_d">>)
WordCasas == S(<<"c","a","s","a","s">>)

\* Entries whose headword line fails the filter: a pair, a triple with its
\* definition, a pair with a Cyrillic translation, a pair without
\* pronunciation
PluralPair == << HeadCasasPlural, LineHouses >>
PluralTriple == << HeadCasasPlural, LineHouses, ProseTerm >>
PluralPairCyrillic == << HeadCasasPlural, LineCyrillicPlural >>
PluralPairPlain == << HeadCasasPlain, LineHouses >>
\* A triple whose pronunciation is no pronunciation marker, so that it is no
\* evidence of an alternating pattern
PluralTripleNoMarker == << S(<<"c","a","s","a","s"," ","/","1","/"," ","<","p","l",">">>), LineHouses, ProseTerm >>

FilterEntries ==
    { PluralPair, PluralTriple, PluralTripleNoMarker, PluralPairCyrillic,
      PluralPairPlain, PairST, TripleProse, PairPlain }

InitFilter == Start({Header(0), Header(ALT_START)})

FilterFirstRun == AddRun(FilterEntries, "first", "second")
FilterSecondRun == AddRun(FilterEntries, "second", "ready")

NextFilter == FilterFirstRun \/ FilterSecondRun \/ Extract

SpecFilter == InitFilter /\ [][NextFilter]_vars

\* The multiline strategy produced the words: selected by its own detector,
\* or by the pattern extraction of an alternating corpus
UsedMultiline ==
    /\ DocScript = "latin"
    /\ \/ strategy = "multiline"
       \/ strategy = "alternating" /\ detect_multiline_format(Doc)

\* No word of an entry whose headword line fails the filter is returned
NoHeadwordOfPlural == ~InWords(WordCasas)
NoTranslationOfPlural == ~InWords(LineHouses) /\ ~InWords(LineCyrillicPlural)

\* C11 as stated: whichever strategy is active and whichever the role, no
\* word is returned from an entry whose headword line fails
\* should_include_word_by_pos.
C11_NoWordOfExcludedEntry ==
    pc = "done" => NoHeadwordOfPlural /\ NoTranslationOfPlural

\* C11 amended: in every strategy the source role returns no word from a
\* headword line that fails should_include_word_by_pos, and the multiline
\* strategy returns no word of such an entry for either role; the other
\* strategies do not hold back the translations of such an entry.
C11_HeadwordLineFiltered ==
    pc = "done" =>
        /\ extract_language = "source" => NoHeadwordOfPlural
        /\ UsedMultiline => NoHeadwordOfPlural /\ NoTranslationOfPlural

\* The multiline strategy, for the target role, on a corpus that holds an
\* entry tagged <pl> and an entry tagged <n>: the translation of the latter
\* is returned
C11_Witness ==
    /\ pc = "done"
    /\ UsedMultiline
    /\ extract_language = "target"
    /\ \E k \in 1..Len(lines) : lines[k] = HeadCasasPlural
    /\ InWords(S(<<"p","a","l","a","b","r","a">>))
    /\ NoTranslationOfPlural

-----------------------------------------------------------------------------
(* is_valid_word on short words over a small alphabet.                     *)

\* The longest word
MaxWord == 4

\* Letters of both cases (USB is on the denylist), a digit, a space, a
\* hyphen, a character that is neither, an accented letter
WordAlphabet == {Ord("U"), Ord("S"), Ord("B"), Ord("s"), Ord("1"), Ord(" "), Ord("-"), Ord("!"), Ord("eacute")}

WordChoices ==
    UNION {[1..n -> WordAlphabet] : n \in 0..MaxWord} \cup {S(<<"c","a","f","eacute">>), S(<<"a","b">>), S(<<"U","S","B">>)}

InitValid ==
    /\ arg \in WordChoices
    /\ pc = "first"
    /\ ret = "none"
    /\ lines = << >>
    /\ extract_language = "source"
    /\ is_dz_file = FALSE
    /\ words = << >>
    /\ strategy = "none"
    /\ posline = << >>
    /\ filters = POS_FILTERS
    /\ output_file = << >>
    /\ dict_files = << >>
    /\ attempted = << >>
    /\ success_count = 0

\* is_valid_word(arg)
Validate ==
    /\ pc = "first"
    /\ ret' = is_valid_word(arg)
    /\ pc' = "done"
    /\ UNCHANGED <<arg, output_file, dict_files, attempted, success_count>>
    /\ UNCHANGED corpusVars

NextValid == Validate

SpecValid == InitValid /\ [][NextValid]_vars

\* The number of alphanumeric characters of a word
AlnumCount(w) == Cardinality({i \in 1..Len(w) : IsAlnum(w[i])})

\* The accented Latin letters, the apostrophe and the hyphen apart
AccentedLetters == ValidWordExtras \ {39, 45}

\* The three examples
ValidExamples ==
    /\ arg = S(<<"U","S","B">>) => ret = FALSE
    /\ arg = S(<<"a","b">>) => ret = FALSE
    /\ arg = S(<<"c","a","f","eacute">>) => ret = TRUE

-----------------------------------------------------------------------------
(* extract_words_from_stardict: the index parser of the StarDict format.   *)
(* A buffer is a sequence of bytes; positions in a buffer count from 0.    *)

\* data[a:b]
Slice(data, a, b) == SubSeq(data, a + 1, Minimum(b, Len(data)))

\* data.find(b'\x00', pos): the first position from pos on that holds the
\* byte, -1 when there is none
Find(data, byte, pos) ==
    LET found == {i \in pos..(Len(data) - 1) : data[i + 1] = byte}
    IN  IF found = {} THEN -1 ELSE MinOf(found)

\* struct.unpack('>I', b): four bytes, the most significant first
Unpack32(b) == ((b[1] * 256 + b[2]) * 256 + b[3]) * 256 + b[4]

\* bytes.decode('utf-8', errors='ignore') on buffers without a lead byte of
\* a three- or four-byte sequence (0xE0..0xF4): an ASCII byte is its
\* character, a lead byte 0xC2..0xDF with a continuation byte 0x80..0xBF is
\* one character, and any other byte is dropped
RECURSIVE Utf8From(_, _)
Utf8From(b, i) ==
    IF i > Len(b) THEN << >>
    ELSE IF b[i] < 128 THEN << b[i] >> \o Utf8From(b, i + 1)
    ELSE IF b[i] \in 194..223 /\ i + 1 <= Len(b) /\ b[i + 1] \in 128..191
    THEN << (b[i] - 192) * 64 + (b[i + 1] - 128) >> \o Utf8From(b, i + 2)
    ELSE Utf8From(b, i + 1)

Utf8Decode(b) == Utf8From(b, 1)

\* A variant of the step below that takes an offset equal to the length of
\* the data for one within the data
IndexRecordInclusive(idx_data, dict_data, pos, entries) ==
    LET null_pos == Find(idx_data, 0, pos)
    IN  IF null_pos = -1 THEN [pos |-> pos, entries |-> entries, stop |-> TRUE]
        ELSE LET word == Utf8Decode(Slice(idx_data, pos, null_pos))
                 pos1 == null_pos + 1
             IN  IF pos1 + 8 > Len(idx_data)
                 THEN [pos |-> pos1, entries |-> entries, stop |-> TRUE]
                 ELSE LET offset == Unpack32(Slice(idx_data, pos1, pos1 + 4))
                          size == Unpack32(Slice(idx_data, pos1 + 4, pos1 + 8))
                          actual_size == Minimum(size, Len(dict_data) - offset)
                          definition ==
                              Utf8Decode(Slice(dict_data, offset, offset + actual_size))
                      IN  [pos |-> pos1 + 8,
                           entries |-> IF offset <= Len(dict_data)
                                       THEN Append(entries, << word, definition >>)
                                       ELSE entries,
                           stop |-> FALSE]

\* A variant of the step below that leaves the position on
\* the zero byte of the headword
IndexRecordOnTerminator(idx_data, dict_data, pos, entries) ==
    LET null_pos == Find(idx_data, 0, pos)
    IN  IF null_pos = -1 THEN [pos |-> pos, entries |-> entries, stop |-> TRUE]
        ELSE IF null_pos + 8 > Len(idx_data)
        THEN [pos |-> null_pos, entries |-> entries, stop |-> null_pos > pos]
        ELSE [pos |-> null_pos + 8, entries |-> entries, stop |-> FALSE]

\* One turn of the loop of the primary pass, from the position pos: the
\* position and the entries after it, and whether the loop breaks
IndexRecord(idx_data, dict_data, pos, entries) ==
    LET null_pos == Find(idx_data, 0, pos)
    IN  IF null_pos = -1 THEN [pos |-> pos, entries |-> entries, stop |-> TRUE]
        ELSE LET word == Utf8Decode(Slice(idx_data, pos, null_pos))
                 pos1 == null_pos + 1
             IN  IF pos1 + 8 > Len(idx_data)
                 THEN [pos |-> pos1, entries |-> entries, stop |-> TRUE]
                 ELSE LET offset == Unpack32(Slice(idx_data, pos1, pos1 + 4))
                          size == Unpack32(Slice(idx_data, pos1 + 4, pos1 + 8))
                          actual_size == Minimum(size, Len(dict_data) - offset)
                          definition ==
                              Utf8Decode(Slice(dict_data, offset, offset + actual_size))
                      IN  [pos |-> pos1 + 8,
                           entries |-> IF offset < Len(dict_data)
                                       THEN Append(entries, << word, definition >>)
                                       ELSE entries,
                           stop |-> FALSE]

\* A variant of the pass below that drops the entries when the loop breaks
\* at an incomplete record
RECURSIVE IndexPassDiscarding(_, _, _, _)
IndexPassDiscarding(idx_data, dict_data, pos, entries) ==
    IF pos >= Len(idx_data) THEN [pos |-> pos, entries |-> entries]
    ELSE LET step == IndexRecord(idx_data, dict_data, pos, entries)
         IN  IF step.stop THEN [pos |-> step.pos, entries |-> << >>]
             ELSE IndexPassDiscarding(idx_data, dict_data, step.pos, step.entries)

\* The primary pass: the final position and the entries
RECURSIVE IndexPass(_, _, _, _)
IndexPass(idx_data, dict_data, pos, entries) ==
    IF pos >= Len(idx_data) THEN [pos |-> pos, entries |-> entries]
    ELSE LET step == IndexRecord(idx_data, dict_data, pos, entries)
         IN  IF step.stop THEN [pos |-> step.pos, entries |-> step.entries]
             ELSE IndexPass(idx_data, dict_data, step.pos, step.entries)

\* A variant of the pass below that adds no word
DirectWordsNone(idx_data, pos, existing_words, language) == << >>

\* The pass over the index alone: the words it adds for the source role
RECURSIVE DirectWords(_, _, _, _)
DirectWords(idx_data, pos, existing_words, language) ==
    IF pos >= Len(idx_data) THEN << >>
    ELSE LET null_pos == Find(idx_data, 0, pos)
         IN  IF null_pos = -1 THEN << >>
             ELSE LET word == Utf8Decode(Slice(idx_data, pos, null_pos))
                      pos1 == null_pos + 1
                      cleaned_word == clean_word(word)
                  IN  IF pos1 + 8 > Len(idx_data) THEN << >>
                      ELSE (IF /\ language = "source"
                               /\ is_valid_word(cleaned_word)
                               /\ word \notin existing_words
                            THEN << cleaned_word >> ELSE << >>)
                           \o DirectWords(idx_data, pos1 + 8, existing_words, language)

\* A variant of the loop below that adds the headwords for either role
RECURSIVE EntryWordsEitherRole(_, _, _)
EntryWordsEitherRole(entries, k, language) ==
    IF k > Len(entries) THEN << >>
    ELSE (IF is_valid_word(clean_word(entries[k][1]))
          THEN << clean_word(entries[k][1]) >> ELSE << >>)
         \o EntryWordsEitherRole(entries, k + 1, language)

\* The words of the entries parsed, for the source role
RECURSIVE EntryWords(_, _, _)
EntryWords(entries, k, language) ==
    IF k > Len(entries) THEN << >>
    ELSE (IF language = "source" /\ is_valid_word(clean_word(entries[k][1]))
          THEN << clean_word(entries[k][1]) >> ELSE << >>)
         \o EntryWords(entries, k + 1, language)

\* A variant that compares the entries with the length of the index
stardict_recovery_by_length(idx_data, dict_data, language) ==
    LET parsed == IndexPass(idx_data, dict_data, 0, << >>)
        recovery == Len(parsed.entries) < Len(idx_data) \div 12
        existing_words == {parsed.entries[k][1] : k \in 1..Len(parsed.entries)}
        direct == IF recovery
                  THEN DirectWords(idx_data, 0, existing_words, language)
                  ELSE << >>
    IN  [words |-> direct \o EntryWords(parsed.entries, 1, language),
         recovered_count |-> Len(direct),
         entries |-> parsed.entries,
         recovery |-> recovery]

\* The words and the recovered count returned, with the entries of the
\* primary pass and whether the second pass was made
extract_words_from_stardict(idx_data, dict_data, language) ==
    LET parsed == IndexPass(idx_data, dict_data, 0, << >>)
        recovery == Len(parsed.entries) < parsed.pos \div 12
        existing_words == {parsed.entries[k][1] : k \in 1..Len(parsed.entries)}
        direct == IF recovery
                  THEN DirectWords(idx_data, 0, existing_words, language)
                  ELSE << >>
    IN  [words |-> direct \o EntryWords(parsed.entries, 1, language),
         recovered_count |-> Len(direct),
         entries |-> parsed.entries,
         recovery |-> recovery]

-----------------------------------------------------------------------------
(* The index parser on small index and data files.                         *)

\* The most records an index holds
MaxRecords == 2

\* A large value of the offset and length fields of a record: the fields
\* are unsigned and of 32 bits; 2^31 - 1 is the largest integer of the model
FieldMax == 2147483647

\* The four bytes struct.unpack('>I', ...) reads back as n
Pack32(n) ==
    << n \div 16777216, (n \div 65536) % 256, (n \div 256) % 256, n % 256 >>

\* The headwords of the index, as UTF-8: one of four letters, one too short,
\* one with a full stop, one whose last letter takes two bytes
IndexWords ==
    {S(<<"c","a","s","a">>), S(<<"a","b">>), S(<<"d","o","g",".">>), << 99, 97, 102, 195, 169 >>}

\* The data file: empty, or 'a', the two bytes of an accented letter, 'd'
DataFiles == {<< >>, << 97, 195, 169, 100 >>}

\* Offsets at the start of the data, at its last byte, at its length and at
\* a large value of the field
IndexOffsets == {0, 3, 4, FieldMax}

IndexSizes == {2, FieldMax}

\* What may follow the last record: nothing, a headword without its zero
\* byte, a headword with fewer than eight bytes after it
IndexTails == {<< 99, 97 >>, << 99, 97, 0, 0, 0, 1 >>}

\* The bytes of the records of an index
RECURSIVE RecordBytes(_, _)
RecordBytes(records, k) ==
    IF k > Len(records) THEN << >>
    ELSE records[k].word \o << 0 >> \o Pack32(records[k].offset)
         \o Pack32(records[k].size) \o RecordBytes(records, k + 1)

\* The index file read
IdxData == RecordBytes(arg.records, 1) \o arg.tail

InitStardict ==
    /\ arg \in [records : {<< >>}, tail : {<< >>}, dict_data : DataFiles]
    /\ extract_language \in Roles
    /\ pc = "first"
    /\ ret = "none"
    /\ lines = << >>
    /\ is_dz_file = FALSE
    /\ words = << >>
    /\ strategy = "none"
    /\ posline = << >>
    /\ filters = POS_FILTERS
    /\ output_file = << >>
    /\ dict_files = << >>
    /\ attempted = << >>
    /\ success_count = 0

\* One more complete record in the index file
AddRecord ==
    /\ pc = "first"
    /\ arg.tail = << >>
    /\ Len(arg.records) < MaxRecords
    /\ \E w \in IndexWords, o \in IndexOffsets, s \in IndexSizes :
           arg' = [arg EXCEPT !.records =
                       Append(@, [word |-> w, offset |-> o, size |-> s])]
    /\ UNCHANGED <<pc, ret, output_file, dict_files, attempted, success_count>>
    /\ UNCHANGED corpusVars

\* An incomplete record at the end of the index file
AddTail ==
    /\ pc = "first"
    /\ arg.tail = << >>
    /\ \E t \in IndexTails : arg' = [arg EXCEPT !.tail = t]
    /\ UNCHANGED <<pc, ret, output_file, dict_files, attempted, success_count>>
    /\ UNCHANGED corpusVars

\* extract_words_from_stardict on the two files
ParseIndex ==
    /\ pc = "first"
    /\ ret' = extract_words_from_stardict(IdxData, arg.dict_data, extract_language)
    /\ words' = ret'.words
    /\ pc' = "done"
    /\ UNCHANGED <<lines, extract_language, is_dz_file, strategy, posline, filters>>
    /\ UNCHANGED runVars

NextStardict == AddRecord \/ AddTail \/ ParseIndex

SpecStardict == InitStardict /\ [][NextStardict]_vars

\* The record's offset lies within the data
WithinData(r) == r.offset < Len(arg.dict_data)

\* The bytes of the data a record's definition spans
SpanOf(r) ==
    [k \in 1..Minimum(r.size, Len(arg.dict_data) - r.offset) |->
        arg.dict_data[r.offset + k]]

\* The entries of the records from the k-th on whose offset is within the data
RECURSIVE EntriesFrom(_)
EntriesFrom(k) ==
    IF k > Len(arg.records) THEN << >>
    ELSE (IF WithinData(arg.records[k])
          THEN << << Utf8Decode(arg.records[k].word), Utf8Decode(SpanOf(arg.records[k])) >> >>
          ELSE << >>)
         \o EntriesFrom(k + 1)

\* C13: the primary pass leaves one entry for each complete record whose
\* offset is within the data, in the order of the index and none for any
\* other record or for an incomplete one; the definition of an entry is the
\* text of the min(length, data length - offset) bytes from the offset, all
\* of them within the data.
C13_PrimaryPassClamps ==
    pc = "done" =>
        /\ ret.entries = EntriesFrom(1)
        /\ \A k \in 1..Len(arg.records) :
               WithinData(arg.records[k]) =>
                   arg.records[k].offset + Len(SpanOf(arg.records[k]))
                       <= Len(arg.dict_data)

\* A record at the length of the data is passed over and the record after
\* it, whose length runs past the end of the data, is kept, clamped
C13_Witness ==
    /\ pc = "done"
    /\ Len(arg.records) = 2
    /\ arg.records[1].offset = Len(arg.dict_data)
    /\ arg.dict_data # << >>
    /\ arg.records[2].offset = 3
    /\ arg.records[2].size = FieldMax
    /\ arg.tail # << >>
    /\ ret.entries = << << Utf8Decode(arg.records[2].word), << 100 >> >> >>

\* The number of records whose offset is within the data
WithinCount == Cardinality({k \in 1..Len(arg.records) : WithinData(arg.records[k])})

\* The headword of a record, decoded
Headword(r) == Utf8Decode(r.word)

\* C14 as stated: a record whose offset exceeds the length of the data
\* leaves no entry, and when the second pass is made its headword is in the
\* output for the source role.
C14_HeadwordRecovered ==
    pc = "done" =>
        /\ Len(ret.entries) = WithinCount
        /\ extract_language = "source" /\ ret.recovery =>
               \A k \in 1..Len(arg.records) :
                   arg.records[k].offset > Len(arg.dict_data) =>
                       InWords(Headword(arg.records[k]))

\* C14, amended: a record whose offset exceeds the length of the data leaves
\* no entry, and when the second pass is made for the source role its
\* headword, stripped of surrounding punctuation, is in the output if that
\* is a valid word; no word of the output is invalid, so a headword that
\* is not valid is recovered in no form.
C14_ValidHeadwordRecovered ==
    pc = "done" =>
        /\ Len(ret.entries) = WithinCount
        /\ \A j \in 1..Len(words) : is_valid_word(words[j])
        /\ extract_language = "source" /\ ret.recovery =>
               \A k \in 1..Len(arg.records) :
                   /\ arg.records[k].offset > Len(arg.dict_data)
                   /\ is_valid_word(clean_word(Headword(arg.records[k])))
                   => InWords(clean_word(Headword(arg.records[k])))

\* The second pass recovers 'dog.' as 'dog' and leaves 'ab' out
C14_Witness ==
    /\ pc = "done"
    /\ extract_language = "source"
    /\ ret.recovery
    /\ Len(arg.records) = 2
    /\ arg.records[1].word = S(<<"d","o","g",".">>)
    /\ arg.records[1].offset > Len(arg.dict_data)
    /\ arg.records[2].word = S(<<"a","b">>)
    /\ arg.records[2].offset > Len(arg.dict_data)
    /\ ret.entries = << >>
    /\ words = << S(<<"d","o","g">>) >>
    /\ ret.recovered_count = 1

ScannedLength ==
    Len(RecordBytes(arg.records, 1))
        + (IF Find(arg.tail, 0, 0) = -1 THEN 0 ELSE Find(arg.tail, 0, 0) + 1)

C26_EntriesKeptHeadwordsOut ==
    pc = "done" /\ arg.tail # << >> =>
        /\ ret.entries = EntriesFrom(1)
        /\ extract_language = "source" =>
               \A k \in 1..Len(ret.entries) : InWords(ret.entries[k][1])

\* C26, amended: when the index ends in an incomplete record, the entries
\* of the complete records before it are kept, the incomplete record adds
\* none, and for the source role the headword of each entry, stripped of
\* surrounding punctuation, is in the output if that is a valid word.
C26_EntriesKeptValidHeadwordsOut ==
    pc = "done" /\ arg.tail # << >> =>
        /\ ret.entries = EntriesFrom(1)
        /\ Len(ret.entries) <= Len(arg.records)
        /\ extract_language = "source" =>
               \A k \in 1..Len(ret.entries) :
                   is_valid_word(clean_word(ret.entries[k][1]))
                       => InWords(clean_word(ret.entries[k][1]))

\* Two entries before a headword cut after its zero byte: 'dog.' gives
\* 'dog' and 'ab' gives no word
C26_Witness ==
    /\ pc = "done"
    /\ extract_language = "source"
    /\ arg.tail = << 99, 97, 0, 0, 0, 1 >>
    /\ Len(ret.entries) = 2
    /\ ret.entries[1][1] = S(<<"d","o","g",".">>)
    /\ ret.entries[2][1] = S(<<"a","b">>)
    /\ words = << S(<<"d","o","g">>) >>

-----------------------------------------------------------------------------
(* save_wordlist: the word list written to its file.                       *)

\* a < b for two strings: the order of sorted() on str, by code point
StrLess(a, b) ==
    \E i \in 1..(Len(b)) :
        /\ i <= Len(a) + 1
        /\ \A j \in 1..(i - 1) : a[j] = b[j]
        /\ i = Len(a) + 1 \/ a[i] < b[i]

\* sorted(...) of a set of strings
RECURSIVE Sorted(_)
Sorted(set) ==
    IF set = {} THEN << >>
    ELSE LET least == CHOOSE x \in set : \A y \in set \ {x} : StrLess(x, y)
         IN  << least >> \o Sorted(set \ {least})

\* '\n'.join(...)
RECURSIVE JoinLines(_, _)
JoinLines(ws, k) ==
    IF k > Len(ws) THEN << >>
    ELSE IF k = Len(ws) THEN ws[k]
    ELSE ws[k] \o << 10 >> \o JoinLines(ws, k + 1)

\* sorted(...) of a list of strings, by insertion from the left
RECURSIVE SortedList(_, _)
SortedList(ws, k) ==
    IF k = 0 THEN << >>
    ELSE LET rest == SortedList(ws, k - 1)
             before == SelectSeq(rest, LAMBDA x : ~StrLess(ws[k], x))
             after == SelectSeq(rest, LAMBDA x : StrLess(ws[k], x))
         IN  before \o << ws[k] >> \o after

\* A variant that sorts the list without making a set of it
save_wordlist_with_repeats(word_list) ==
    IF word_list = << >> THEN [content |-> << >>, count |-> 0]
    ELSE LET unique_words == SortedList(word_list, Len(word_list))
         IN  [content |-> JoinLines(unique_words, 1), count |-> Len(unique_words)]

\* The content written and the count returned
save_wordlist(word_list) ==
    IF word_list = << >> THEN [content |-> << >>, count |-> 0]
    ELSE LET unique_words == Sorted({word_list[k] : k \in 1..Len(word_list)})
         IN  [content |-> JoinLines(unique_words, 1), count |-> Len(unique_words)]

\* The longest word list
MaxList == 4

\* Words that differ in case, in length and in an accented letter
SavedWords == {S(<<"c","a","s","a">>), S(<<"c","a","s">>), S(<<"Z","e","b","r","a">>), S(<<"c","a","f","eacute">>), S(<<"c","a","f","z">>)}

InitSave ==
    /\ arg = << >>
    /\ pc = "first"
    /\ ret = "none"
    /\ lines = << >>
    /\ extract_language = "source"
    /\ is_dz_file = FALSE
    /\ words = << >>
    /\ strategy = "none"
    /\ posline = << >>
    /\ filters = POS_FILTERS
    /\ output_file = << >>
    /\ dict_files = << >>
    /\ attempted = << >>
    /\ success_count = 0

\* One more word extracted
AppendWord ==
    /\ pc = "first"
    /\ Len(arg) < MaxList
    /\ \E w \in SavedWords : arg' = Append(arg, w)
    /\ UNCHANGED <<pc, ret, output_file, dict_files, attempted, success_count>>
    /\ UNCHANGED corpusVars

\* save_wordlist(arg, ...)
Save ==
    /\ pc = "first"
    /\ output_file' = save_wordlist(arg).content
    /\ ret' = save_wordlist(arg).count
    /\ pc' = "done"
    /\ UNCHANGED <<arg, dict_files, attempted, success_count>>
    /\ UNCHANGED corpusVars

NextSave == AppendWord \/ Save

SpecSave == InitSave /\ [][NextSave]_vars

\* content.split('\n'): the lines of a file
RECURSIVE FileLines(_, _)
FileLines(content, from) ==
    LET nl == Find(content, 10, from - 1)
    IN  IF nl = -1 THEN << SubSeq(content, from, Len(content)) >>
        ELSE << SubSeq(content, from, nl) >> \o FileLines(content, nl + 2)

\* The words of the list passed
InputWords == {arg[k] : k \in 1..Len(arg)}

\* C16: for a word list that is not empty, the lines of the file are the
\* distinct words of the list, each once and no other, in strictly ascending
\* order by code point, and the count returned is the number of distinct
\* words.
C16_SortedDistinct ==
    pc = "done" /\ arg # << >> =>
        LET persisted == FileLines(output_file, 1)
        IN  /\ {persisted[k] : k \in 1..Len(persisted)} = InputWords
            /\ \A j, k \in 1..Len(persisted) : j < k => StrLess(persisted[j], persisted[k])
            /\ Len(persisted) = Cardinality(InputWords)
            /\ ret = Cardinality(InputWords)

\* A list with a repeat whose order is not the order of the file: an
\* upper-case letter sorts before the lower-case ones and the accented
\* letter after z
C16_Witness ==
    /\ pc = "done"
    /\ arg = << S(<<"c","a","f","eacute">>), S(<<"c","a","f","z">>), S(<<"Z","e","b","r","a">>), S(<<"c","a","f","eacute">>) >>
    /\ FileLines(output_file, 1) = << S(<<"Z","e","b","r","a">>), S(<<"c","a","f","z">>), S(<<"c","a","f","eacute">>) >>
    /\ ret = 3

-----------------------------------------------------------------------------
(* process_all_dictionaries: the loop over the dictionary files.           *)

SupportedExtensions ==
    {S(<<".","d","i","c","t",".","d","z">>), S(<<".","d","i","c","t","d",".","t","a","r",".","x","z">>), S(<<".","s","r","c",".","t","a","r",".","x","z">>), S(<<".","s","t","a","r","d","i","c","t",".","t","a","r",".","x","z">>)}

\* f.endswith(supported_extensions)
IsSupported(f) == \E e \in SupportedExtensions : EndsWith(f, e)

\* A variant of the count below that counts every attempt
CountEveryAttempt(count, raised) == count + 1

\* success_count after one turn of the loop: the increment follows the call
\* inside the try, so a call that raises leaves the count as it was
CountAfterAttempt(count, raised) == IF raised THEN count ELSE count + 1

\* The most files in the folder
MaxFiles == 3

\* The names in the folder: one of each supported packaging, and one file
\* that is no dictionary
FolderNames ==
    {S(<<"a",".","d","i","c","t",".","d","z">>), S(<<"b",".","d","i","c","t","d",".","t","a","r",".","x","z">>), S(<<"c",".","s","r","c",".","t","a","r",".","x","z">>), S(<<"d",".","s","t","a","r","d","i","c","t",".","t","a","r",".","x","z">>),
     S(<<"e",".","t","a","r",".","x","z">>)}

\* os.listdir: the names of a folder, each once, in any order
Listings ==
    {l \in UNION {[1..n -> FolderNames] : n \in 0..MaxFiles} :
        \A j, k \in 1..Len(l) : j # k => l[j] # l[k]}

InitBatch ==
    /\ arg \in Listings
    /\ pc = "first"
    /\ ret = "none"
    /\ lines = << >>
    /\ extract_language = "source"
    /\ is_dz_file = FALSE
    /\ words = << >>
    /\ strategy = "none"
    /\ posline = << >>
    /\ filters = POS_FILTERS
    /\ output_file = << >>
    /\ dict_files = << >>
    /\ attempted = << >>
    /\ success_count = 0

\* The folder listed and filtered; the run ends here if the listing raises
\* OSError or no file is left
Discover ==
    /\ pc = "first"
    /\ \E listed \in BOOLEAN :
           dict_files' = IF listed THEN SelectSeq(arg, IsSupported) ELSE << >>
    /\ pc' = IF dict_files' = << >> THEN "done" ELSE "loop"
    /\ UNCHANGED <<arg, ret, output_file, attempted, success_count>>
    /\ UNCHANGED corpusVars

\* One turn of the loop: process_single_dictionary returns or raises
ProcessNext ==
    /\ pc = "loop"
    /\ \E raised \in BOOLEAN :
           /\ attempted' = Append(attempted,
                  [file |-> dict_files[Len(attempted) + 1], raised |-> raised])
           /\ success_count' = CountAfterAttempt(success_count, raised)
    /\ pc' = IF Len(attempted') = Len(dict_files) THEN "done" ELSE "loop"
    /\ UNCHANGED <<arg, ret, output_file, dict_files>>
    /\ UNCHANGED corpusVars

NextBatch == Discover \/ ProcessNext

SpecBatch == InitBatch /\ [][NextBatch]_vars

\* C17: the files attempted are the files discovered so far down the list,
\* each once and in the order of the list, whether an earlier one raised or
\* not; at the end every file has been attempted; the success count is the
\* number of attempts that did not raise.
C17_EveryFileAttempted ==
    /\ Len(attempted) <= Len(dict_files)
    /\ \A k \in 1..Len(attempted) : attempted[k].file = dict_files[k]
    /\ pc = "done" => Len(attempted) = Len(dict_files)
    /\ pc = "loop" => Len(attempted) < Len(dict_files)
    /\ success_count = Cardinality({k \in 1..Len(attempted) : ~attempted[k].raised})

\* The first of three files raises and the two after it are processed
C17_Witness ==
    /\ pc = "done"
    /\ Len(dict_files) = 3
    /\ Len(attempted) = 3
    /\ attempted[1].raised
    /\ ~attempted[2].raised
    /\ ~attempted[3].raised
    /\ success_count = 2

-----------------------------------------------------------------------------
(* extract_words_from_gzip_content on corpora shorter than the windows of  *)
(* the detectors.                                                          *)

\* The most lines of a short corpus
MaxLines == 4

\* A blank line, a header line, a short headword, its longer translation, a
\* headword with pronunciation and tag, a Cyrillic word
ShortLines ==
    {<< >>, S(<<"0","0","-","d","a","t","a","b","a","s","e","-","s","h","o","r","t">>), S(<<"a","v">>), S(<<"w","a","t","e","r",","," ","s","e","a">>), HeadCasa, S(<<"cy_d","cy_o","cy_m">>)}

InitShort == Start({<< >>})

\* The file read supplies one more line
AppendLine ==
    /\ pc = "first"
    /\ Len(lines) < MaxLines
    /\ \E l \in ShortLines : lines' = Append(lines, l)
    /\ UNCHANGED <<extract_language, is_dz_file, pc, words, strategy, posline, filters, ret>>
    /\ UNCHANGED runVars

NextShort == AppendLine \/ Extract

SpecShort == InitShort /\ [][NextShort]_vars

\* No detector matches the corpus
NoHeuristicMatches ==
    /\ DocScript \notin NonLatinScripts
    /\ detect_alternating_pattern(Doc) \notin Patterns
    /\ ~detect_simple_format(Doc)
    /\ ~detect_multiline_format(Doc)

\* C18: on every corpus, the empty one and those shorter than the windows
\* of the detectors among them, and for either role, the call returns a list
\* of words; when no detector matches, the list is the one the header-skip
\* fallback returns for the role, which may be empty.
C18_TotalWithFallback ==
    pc = "done" =>
        /\ DOMAIN words = 1..Len(words)
        /\ \A k \in 1..Len(words) : DOMAIN words[k] = 1..Len(words[k])
        /\ NoHeuristicMatches =>
               /\ strategy = "fallback"
               /\ words = _extract_with_header_skip(Doc, extract_language)

\* A corpus of two lines on which no detector matches and the fallback
\* returns the headword
C18_Witness ==
    /\ pc = "done"
    /\ lines = << S(<<"a","v">>), S(<<"w","a","t","e","r",","," ","s","e","a">>) >>
    /\ extract_language = "source"
    /\ NoHeuristicMatches
    /\ words = << S(<<"a","v">>) >>

-----------------------------------------------------------------------------
(* get_language_mapping and determine_wordlist_filenames.                  *)

LANGUAGE_MAPPINGS ==
    {<< S(<<"a","f","r">>), S(<<"a","f","r","i","k","a","a","n","s">>) >>, << S(<<"a","r","a">>), S(<<"a","r","a","b","i","c">>) >>,
     << S(<<"a","s","t">>), S(<<"a","s","t","u","r","i","a","n">>) >>, << S(<<"b","r","e">>), S(<<"b","r","e","t","o","n">>) >>,
     << S(<<"b","u","l">>), S(<<"b","u","l","g","a","r","i","a","n">>) >>, << S(<<"c","a","t">>), S(<<"c","a","t","a","l","a","n">>) >>,
     << S(<<"c","e","s">>), S(<<"c","z","e","c","h">>) >>, << S(<<"c","k","b">>), S(<<"s","o","r","a","n","i">>) >>,
     << S(<<"c","y","m">>), S(<<"w","e","l","s","h">>) >>, << S(<<"d","a","n">>), S(<<"d","a","n","i","s","h">>) >>,
     << S(<<"d","e","u">>), S(<<"g","e","r","m","a","n">>) >>, << S(<<"e","l","l">>), S(<<"g","r","e","e","k">>) >>,
     << S(<<"e","n","g">>), S(<<"e","n","g","l","i","s","h">>) >>, << S(<<"e","p","o">>), S(<<"e","s","p","e","r","a","n","t","o">>) >>,
     << S(<<"f","i","n">>), S(<<"f","i","n","n","i","s","h">>) >>, << S(<<"f","r","a">>), S(<<"f","r","e","n","c","h">>) >>,
     << S(<<"g","l","e">>), S(<<"i","r","i","s","h">>) >>, << S(<<"h","i","n">>), S(<<"h","i","n","d","i">>) >>,
     << S(<<"h","r","v">>), S(<<"c","r","o","a","t","i","a","n">>) >>, << S(<<"i","t","a">>), S(<<"i","t","a","l","i","a","n">>) >>,
     << S(<<"j","p","n">>), S(<<"j","a","p","a","n","e","s","e">>) >>, << S(<<"k","h","a">>), S(<<"k","h","a","s","i">>) >>,
     << S(<<"k","m","r">>), S(<<"k","u","r","m","a","n","j","i">>) >>, << S(<<"l","a","t">>), S(<<"l","a","t","i","n">>) >>,
     << S(<<"n","l","d">>), S(<<"d","u","t","c","h">>) >>, << S(<<"p","o","l">>), S(<<"p","o","l","i","s","h">>) >>,
     << S(<<"p","o","r">>), S(<<"p","o","r","t","u","g","u","e","s","e">>) >>, << S(<<"r","u","s">>), S(<<"r","u","s","s","i","a","n">>) >>,
     << S(<<"s","p","a">>), S(<<"s","p","a","n","i","s","h">>) >>, << S(<<"s","w","e">>), S(<<"s","w","e","d","i","s","h">>) >>,
     << S(<<"s","w","h">>), S(<<"s","w","a","h","i","l","i">>) >>}

\* LANGUAGE_MAPPINGS.get(code, code)
MappingGet(code) ==
    IF \E p \in LANGUAGE_MAPPINGS : p[1] = code
    THEN (CHOOSE p \in LANGUAGE_MAPPINGS : p[1] = code)[2]
    ELSE code

\* The last position that holds the character, -1 when there is none
RFind(s, ch) ==
    LET found == {i \in 0..(Len(s) - 1) : s[i + 1] = ch}
    IN  IF found = {} THEN -1 ELSE CHOOSE i \in found : \A j \in found : j <= i

\* Path(p).name, for a path whose last component is a file name
PathName(p) == SubSeq(p, RFind(p, 47) + 2, Len(p))

\* Path(p).stem: the name without its last suffix; a dot that begins or ends
\* the name begins no suffix
PathStem(p) ==
    LET name == PathName(p)
        i == RFind(name, 46)
    IN  IF 0 < i /\ i < Len(name) - 1 THEN SubSeq(name, 1, i) ELSE name

\* s.split(ch)
RECURSIVE SplitOn(_, _)
SplitOn(s, ch) ==
    LET i == Find(s, ch, 0)
    IN  IF i = -1 THEN << s >>
        ELSE << SubSeq(s, 1, i) >> \o SplitOn(SubSeq(s, i + 2, Len(s)), ch)

\* The first two parts, or the first part twice
FirstTwoParts(parts) ==
    IF Len(parts) >= 2 THEN << Lower(parts[1]), Lower(parts[2]) >>
    ELSE << Lower(parts[1]), Lower(parts[1]) >>

get_language_mapping(name_or_code) ==
    LET codes ==
            IF EndsWith(name_or_code, S(<<".","d","i","c","t",".","d","z">>))
            THEN FirstTwoParts(SplitOn(PathStem(PathStem(name_or_code)), 45))
            ELSE LET parts == SplitOn(PathStem(name_or_code), 45)
                     three == SelectSeq(parts, LAMBDA part : Len(part) = 3)
                 IN  IF Len(three) >= 2
                     THEN << Lower(three[1]), Lower(three[2]) >>
                     ELSE FirstTwoParts(parts)
    IN  << MappingGet(codes[1]), MappingGet(codes[2]) >>

\* The target file name, then the source file name
determine_wordlist_filenames(dict_path) ==
    LET name == PathName(dict_path)
        base == SplitOn(name, 46)[1]
        langs == get_language_mapping(base)
    IN  << langs[2] \o S(<<"_">>) \o base \o S(<<".","t","x","t">>),
           langs[1] \o S(<<"_">>) \o base \o S(<<".","t","x","t">>) >>

\* The dictionary files: with and without a folder, with and without a
\* version, in each packaging
NameFolders == {<< >>, S(<<"d","i","c","t","i","o","n","a","r","i","e","s","/">>)}
NameStems ==
    {S(<<"f","r","e","e","d","i","c","t","-","e","n","g","-","b","u","l">>), S(<<"f","r","e","e","d","i","c","t","-","e","n","g","-","c","e","s">>), S(<<"f","r","a","-","e","n","g">>), S(<<"k","h","a","-","d","e","u">>),
     S(<<"f","r","e","e","d","i","c","t","-","E","N","G","-","z","z">>), S(<<"x">>)}
NameVersions == {<< >>, S(<<"-","2","0","2","4">>), S(<<"-","2","0","2","4",".","1","0",".","1","0">>), S(<<"-","2","0","2","4",".","1","1",".","0","1">>), S(<<"-","0",".","1",".","3">>)}
DictPaths ==
    {f \o s \o v \o e :
        f \in NameFolders, s \in NameStems, v \in NameVersions, e \in SupportedExtensions}

InitNames ==
    /\ arg \in DictPaths
    /\ pc = "first"
    /\ ret = "none"
    /\ lines = << >>
    /\ extract_language = "source"
    /\ is_dz_file = FALSE
    /\ words = << >>
    /\ strategy = "none"
    /\ posline = << >>
    /\ filters = POS_FILTERS
    /\ output_file = << >>
    /\ dict_files = << >>
    /\ attempted = << >>
    /\ success_count = 0

\* determine_wordlist_filenames(arg)
NameFiles ==
    /\ pc = "first"
    /\ ret' = determine_wordlist_filenames(arg)
    /\ pc' = "done"
    /\ UNCHANGED <<arg, output_file, dict_files, attempted, success_count>>
    /\ UNCHANGED corpusVars

NextNames == NameFiles

SpecNames == InitNames /\ [][NextNames]_vars

\* The file name without its packaging extension
WithoutPackaging(name) ==
    LET e == CHOOSE e \in SupportedExtensions : EndsWith(name, e)
    IN  SubSeq(name, 1, Len(name) - Len(e))

\* C19 as stated: the pair returned is the target file name and the source
\* file name, each '<language>_<base>.txt' with <base> the file name without
\* its packaging extension, the dotted version kept;
\* 'freedict-eng-bul-2024.10.10.dictd.tar.xz' gives
\* 'bulgarian_freedict-eng-bul-2024.10.10.txt' and
\* 'english_freedict-eng-bul-2024.10.10.txt'.
C19_VersionKept ==
    pc = "done" =>
        LET base == WithoutPackaging(PathName(arg))
            langs == get_language_mapping(base)
        IN  /\ ret = << langs[2] \o S(<<"_">>) \o base \o S(<<".","t","x","t">>),
                        langs[1] \o S(<<"_">>) \o base \o S(<<".","t","x","t">>) >>
            /\ arg = S(<<"f","r","e","e","d","i","c","t","-","e","n","g","-","b","u","l","-","2","0","2","4",".","1","0",".","1","0",".","d","i","c","t","d",".","t","a","r",".","x","z">>) =>
                   ret = << S(<<"b","u","l","g","a","r","i","a","n","_","f","r","e","e","d","i","c","t","-","e","n","g","-","b","u","l","-","2","0","2","4",".","1","0",".","1","0",".","t","x","t">>),
                            S(<<"e","n","g","l","i","s","h","_","f","r","e","e","d","i","c","t","-","e","n","g","-","b","u","l","-","2","0","2","4",".","1","0",".","1","0",".","t","x","t">>) >>

-----------------------------------------------------------------------------
(* _extract_simple_format_words: the lines its iterator consumes.          *)

\* The lines the iterator yields from index i on, in the order it yields
\* them, each with what it is consumed as: the for statement takes a line,
\* and next(iterator, '') takes the line after a headword if there is one
RECURSIVE SimpleCursor(_, _)
SimpleCursor(ls, i) ==
    IF i >= Len(ls) THEN << >>
    ELSE LET line == Strip(At(ls, i))
         IN  IF Len(line) = 0 \/ is_header_line(line)
             THEN << [index |-> i, kind |-> "skipped"] >> \o SimpleCursor(ls, i + 1)
             ELSE << [index |-> i, kind |-> "headword"] >>
                  \o (IF i + 1 < Len(ls)
                      THEN << [index |-> i + 1, kind |-> "translation"] >>
                      ELSE << >>)
                  \o SimpleCursor(ls, i + 2)

InitCursor == Start({<< >>})

\* _extract_simple_format_words(lines, role)
ExtractSimple ==
    /\ pc = "first"
    /\ \E role \in Roles :
        /\ extract_language' = role
        /\ words' = _extract_simple_format_words(lines, role)
    /\ strategy' = "simple"
    /\ pc' = "done"
    /\ UNCHANGED <<lines, is_dz_file, posline, filters, ret>>
    /\ UNCHANGED runVars

NextCursor == AppendLine \/ ExtractSimple

SpecCursor == InitCursor /\ [][NextCursor]_vars

\* The lines consumed over the whole corpus
Consumed == SimpleCursor(lines, 0)

\* The words the lines consumed from the k-th on give for a role: a
\* headword gives the source word, a translation that is not blank gives
\* the target words
RECURSIVE WordsOfConsumed(_, _, _)
WordsOfConsumed(consumed, k, language) ==
    IF k > Len(consumed) THEN << >>
    ELSE LET line == Strip(At(lines, consumed[k].index))
         IN  (IF language = "source" /\ consumed[k].kind = "headword"
              THEN HeadwordLineWords(line)
              ELSE IF language = "target" /\ consumed[k].kind = "translation"
                      /\ Len(line) > 0
              THEN extract_simple_translation_words(line)
              ELSE << >>)
             \o WordsOfConsumed(consumed, k + 1, language)

\* C20: the iterator yields every line index once, in ascending order; a
\* line is skipped only if it is blank or a header, a headword is neither,
\* and a translation is the line right after a headword; the words returned
\* for either role are those of this one division of the lines: the source
\* words come from the headwords, the target words from the translations,
\* and no line is both.
C20_SingleCursor ==
    pc = "done" =>
        LET consumed == Consumed
        IN  /\ Len(consumed) = Len(lines)
            /\ \A k \in 1..Len(consumed) :
                   /\ consumed[k].index = k - 1
                   /\ consumed[k].kind = "skipped" =>
                          \/ Strip(lines[k]) = << >>
                          \/ is_header_line(Strip(lines[k]))
                   /\ consumed[k].kind = "headword" =>
                          /\ Strip(lines[k]) # << >>
                          /\ ~is_header_line(Strip(lines[k]))
                   /\ consumed[k].kind = "translation" =>
                          k > 1 /\ consumed[k - 1].kind = "headword"
            /\ words = WordsOfConsumed(consumed, 1, extract_language)

\* Header, headword, translation, headword: the last headword has no
\* translation, and the translation of the pair gives no source word though
\* on its own it would
C20_Witness ==
    /\ pc = "done"
    /\ extract_language = "source"
    /\ lines = << S(<<"0","0","-","d","a","t","a","b","a","s","e","-","s","h","o","r","t">>), S(<<"a","v">>), S(<<"w","a","t","e","r",","," ","s","e","a">>), S(<<"a","v">>) >>
    /\ words = << S(<<"a","v">>), S(<<"a","v">>) >>
    /\ HeadwordLineWords(S(<<"w","a","t","e","r",","," ","s","e","a">>)) # << >>

-----------------------------------------------------------------------------
(* _extract_with_header_skip: the pairs of its second loop.                *)

\* The first indexes of the pairs the second loop extracts from, from index
\* i on: a pair with a blank line moves the index by one, a pair extracted
\* from moves it by two
RECURSIVE HeaderSkipPairs(_, _)
HeaderSkipPairs(ls, i) ==
    IF i >= Len(ls) - 1 THEN << >>
    ELSE IF Strip(At(ls, i)) = << >> \/ Strip(At(ls, i + 1)) = << >>
    THEN HeaderSkipPairs(ls, i + 1)
    ELSE << i >> \o HeaderSkipPairs(ls, i + 2)

InitPairs == Start({<< >>})

\* _extract_with_header_skip(lines, role)
ExtractHeaderSkip ==
    /\ pc = "first"
    /\ \E role \in Roles :
        /\ extract_language' = role
        /\ words' = _extract_with_header_skip(lines, role)
    /\ strategy' = "fallback"
    /\ pc' = "done"
    /\ UNCHANGED <<lines, is_dz_file, posline, filters, ret>>
    /\ UNCHANGED runVars

NextPairs == AppendLine \/ ExtractHeaderSkip

SpecPairs == InitPairs /\ [][NextPairs]_vars

\* The words the pairs from the k-th on give for a role
RECURSIVE WordsOfPairs(_, _, _)
WordsOfPairs(pairs, k, language) ==
    IF k > Len(pairs) THEN << >>
    ELSE (IF language = "source"
          THEN HeadwordLineWords(Strip(At(lines, pairs[k])))
          ELSE extract_simple_translation_words(Strip(At(lines, pairs[k] + 1))))
         \o WordsOfPairs(pairs, k + 1, language)

\* C21: the pairs the fallback extracts from do not overlap: each begins at
\* least two lines after the one before it, so the translation line of a
\* pair is the headword line of no pair; the words returned are those of
\* these pairs, the source words from their first lines and the target
\* words from their second lines.
C21_PairsDisjoint ==
    pc = "done" =>
        LET pairs == HeaderSkipPairs(lines, HeaderSkipStart(lines))
        IN  /\ \A j, k \in 1..Len(pairs) : j < k => pairs[k] >= pairs[j] + 2
            /\ \A j, k \in 1..Len(pairs) : pairs[j] + 1 # pairs[k]
            /\ \A k \in 1..Len(pairs) : pairs[k] + 1 <= Len(lines) - 1
            /\ words = WordsOfPairs(pairs, 1, extract_language)

\* Four lines, each of which would give a source word: the second is the
\* translation of the first pair and begins no pair
C21_Witness ==
    /\ pc = "done"
    /\ extract_language = "source"
    /\ lines = << S(<<"a","v">>), S(<<"w","a","t","e","r",","," ","s","e","a">>), S(<<"a","v">>), S(<<"w","a","t","e","r",","," ","s","e","a">>) >>
    /\ HeaderSkipPairs(lines, HeaderSkipStart(lines)) = << 0, 2 >>
    /\ words = << S(<<"a","v">>), S(<<"a","v">>) >>
    /\ HeadwordLineWords(S(<<"w","a","t","e","r",","," ","s","e","a">>)) # << >>

-----------------------------------------------------------------------------
(* extract_multiline_format_words: the triples it extracts from.           *)

\* A line on its own, which moves every entry after it by one line; an
\* entry of three lines; an entry of two lines, without a definition; an
\* entry whose translation holds a tag; an entry of the plural
StrideEntries ==
    {<< LineHouse >>, TripleProse, PairST, TripleTaggedTranslation, PluralTripleNoMarker}

InitStride == Start({Header(0)})

StrideFirstRun == AddRun(StrideEntries, "first", "second")
StrideSecondRun == AddRun(StrideEntries, "second", "ready")

\* extract_multiline_format_words(lines, role)
ExtractMultiline ==
    /\ pc \in {"first", "second", "ready"}
    /\ \E role \in Roles :
        /\ extract_language' = role
        /\ words' = extract_multiline_format_words(lines, role)
    /\ strategy' = "multiline"
    /\ pc' = "done"
    /\ UNCHANGED <<lines, is_dz_file, posline, filters, ret>>
    /\ UNCHANGED runVars

NextStride == StrideFirstRun \/ StrideSecondRun \/ ExtractMultiline

SpecStride == InitStride /\ [][NextStride]_vars

\* The test of the extractor on the lines at i and i + 1, and the
\* part-of-speech filter on the first of them
ExtractsAt(i) ==
    /\ StrippedLine(i) # << >> /\ StrippedLine(i + 1) # << >>
    /\ HasChar(StrippedLine(i), 47) /\ HasChar(StrippedLine(i), 60)
    /\ ~HasChar(StrippedLine(i + 1), 47) /\ ~HasChar(StrippedLine(i + 1), 60)
    /\ should_include_word_by_pos(StrippedLine(i), POS_FILTERS)

\* The words of the triple at i for a role
TripleWords(i, language) ==
    IF language = "source"
    THEN SelectSeq(extract_pronunciation_word(StrippedLine(i)), is_valid_word)
    ELSE SelectSeq(CleanedWords(ReplaceSub(ReplaceChars(StrippedLine(i + 1), {44, 59}, 32),
                                           S(<<"2",".">>), S(<<" ">>))),
                   MultilineKeep)

\* The indexes at which the loop extracts, from index i on
RECURSIVE MultilineStarts(_)
MultilineStarts(i) ==
    IF i >= Len(lines) - 2 THEN << >>
    ELSE IF ExtractsAt(i) THEN << i >> \o MultilineStarts(i + 3)
    ELSE MultilineStarts(i + 1)

RECURSIVE WordsOfTriples(_, _, _)
WordsOfTriples(starts, k, language) ==
    IF k > Len(starts) THEN << >>
    ELSE TripleWords(starts[k], language) \o WordsOfTriples(starts, k + 1, language)

\* The words of the triples at 0, 3, 6, ... that pass the test of the
\* detector as the specification states it
RECURSIVE StridedWords(_, _)
StridedWords(i, language) ==
    IF i >= Len(lines) - 2 THEN << >>
    ELSE (IF TripleAsStated(i) /\ should_include_word_by_pos(StrippedLine(i), POS_FILTERS)
          THEN TripleWords(i, language) ELSE << >>)
         \o StridedWords(i + 3, language)

\* C22 as stated: the words returned are those of the triples that begin at
\* 0, 3, 6, ... and pass the test of the detector: line 1 has a slash and an
\* angle bracket, line 2 has neither, line 3 has a period or more than 8
\* tokens.
C22_FixedStride ==
    pc = "done" => words = StridedWords(0, extract_language)

\* C22, amended: the index moves by three after a triple extracted from and
\* by one otherwise, so a triple may begin at any index; the loop extracts
\* at an index with two lines after it if lines 1 and 2 are not blank, line
\* 1 has a slash and an opening angle bracket and passes the part-of-speech
\* filter, and line 2 has neither a slash nor an opening angle bracket;
\* line 3 is not looked at.  The indexes extracted at are at least three
\* apart, and every other index that passes the test lies within a triple
\* extracted from.
C22_ResynchronisingStride ==
    pc = "done" =>
        LET starts == MultilineStarts(0)
            covered == {starts[k] + d : k \in 1..Len(starts), d \in 0..2}
        IN  /\ words = WordsOfTriples(starts, 1, extract_language)
            /\ \A k \in 1..Len(starts) :
                   starts[k] + 2 <= Len(lines) - 1 /\ ExtractsAt(starts[k])
            /\ \A j, k \in 1..Len(starts) : j < k => starts[k] >= starts[j] + 3
            /\ \A i \in 0..(Len(lines) - 3) : ExtractsAt(i) => i \in covered

\* A line on its own and five entries of two lines: the loop extracts at 1
\* and 5, taking the headword of the next entry for the third line
C22_Witness ==
    /\ pc = "done"
    /\ extract_language = "source"
    /\ lines = << LineHouse >> \o Repeat(PairST, 5)
    /\ MultilineStarts(0) = << 1, 5 >>
    /\ words = << S(<<"c","a","s","a">>), S(<<"c","a","s","a">>) >>

-----------------------------------------------------------------------------
(* Header lines among the entries.                                         *)

\* Header lines by a keyword: one of plain words, one with a pronunciation
\* and a tag, one with a Cyrillic word
HeaderPlain == S(<<"f","r","e","e","d","i","c","t"," ","l","i","c","e","n","s","e">>)
HeaderMarked == S(<<"l","i","c","e","n","s","e"," ","/","ipa_stress","l","i","s","e","n","s","/"," ","<","n",">">>)
HeaderCyrillic == S(<<"f","r","e","e","d","i","c","t"," ","cy_d","cy_o","cy_m">>)

\* Entries with a header line for the translation, for the headword, and
\* for both lines of a Cyrillic entry
HeaderEntries ==
    {<< HeadCasa, HeaderPlain >>, << HeaderMarked, LineHouse >>,
     << HeadWord, HeaderPlain, ProseTerm >>, << HeaderMarked, LinePalabra, ProseTerm >>,
     << S(<<"a","v">>), HeaderPlain >>, << S(<<"l","i","c","e","n","s","e">>), S(<<"w","a","t","e","r",","," ","s","e","a">>) >>,
     << HeaderMarked, HeaderCyrillic >>, PairCyrillic, PairPlain}

InitHeaders == Start({Header(0), Header(ALT_START)})

HeaderFirstRun == AddRun(HeaderEntries, "first", "second")
HeaderSecondRun == AddRun(HeaderEntries, "second", "ready")

NextHeaders == HeaderFirstRun \/ HeaderSecondRun \/ Extract

SpecHeaders == InitHeaders /\ [][NextHeaders]_vars

\* The words that only the header lines of the entries hold
HeaderWords == {S(<<"f","r","e","e","d","i","c","t">>), S(<<"l","i","c","e","n","s","e">>)}

\* C23: whatever the corpus, the role and the strategy, no word returned is
\* taken from a line for which is_header_line holds, be it the headword or
\* the translation of its entry.
C23_NoWordOfHeaderLine ==
    pc = "done" =>
        /\ is_header_line(HeaderPlain) /\ is_header_line(HeaderMarked)
        /\ is_header_line(HeaderCyrillic) /\ is_header_line(S(<<"l","i","c","e","n","s","e">>))
        /\ \A w \in HeaderWords : ~InWords(w)

-----------------------------------------------------------------------------
(* The script-driven strategy for the target role, token by token.         *)

\* The most tokens on the line
MaxTokens == 3

\* Tokens of each script: of two or more characters, of one character, and
\* with a Latin letter after the characters of the script; a Cyrillic token
\* with a hyphen inside and one with a comma after it; a Latin token
LineTokens ==
    {S(<<"cy_d","cy_o","cy_m">>), S(<<"cy_d">>), S(<<"cy_d","cy_o","cy_m","a">>), S(<<"cy_d","cy_o","-","cy_m">>), S(<<"cy_d","cy_o","cy_m",",">>),
     S(<<"ar_b","ar_y","ar_t">>), S(<<"ar_b","a">>), S(<<"dv_gha","dv_ra">>), S(<<"dv_gha","a">>), S(<<"cjk_house">>), S(<<"cjk_house","a">>), S(<<"h","o","u","s","e">>)}

TargetScripts == {"arabic", "cyrillic", "devanagari", "cjk"}

\* ' '.join(tokens)
RECURSIVE JoinSpaces(_, _)
JoinSpaces(tokens, k) ==
    IF k > Len(tokens) THEN << >>
    ELSE IF k = Len(tokens) THEN tokens[k]
    ELSE tokens[k] \o << 32 >> \o JoinSpaces(tokens, k + 1)

InitTokens ==
    /\ arg \in [script : TargetScripts, tokens : {<< >>}]
    /\ lines = << << >> >>
    /\ pc = "first"
    /\ extract_language = "target"
    /\ is_dz_file = FALSE
    /\ words = << >>
    /\ strategy = "none"
    /\ posline = << >>
    /\ filters = POS_FILTERS
    /\ ret = "none"
    /\ output_file = << >>
    /\ dict_files = << >>
    /\ attempted = << >>
    /\ success_count = 0

\* The line read has one more token
AppendToken ==
    /\ pc = "first"
    /\ Len(arg.tokens) < MaxTokens
    /\ \E t \in LineTokens :
           /\ arg' = [arg EXCEPT !.tokens = Append(@, t)]
           /\ lines' = << JoinSpaces(arg'.tokens, 1) >>
    /\ UNCHANGED <<extract_language, is_dz_file, pc, words, strategy, posline, filters, ret>>
    /\ UNCHANGED <<output_file, dict_files, attempted, success_count>>

\* extract_words_by_script_detection(lines, "target", script)
ExtractByScript ==
    /\ pc = "first"
    /\ words' = extract_words_by_script_detection(lines, "target", arg.script)
    /\ strategy' = "script-driven"
    /\ pc' = "done"
    /\ UNCHANGED <<lines, extract_language, is_dz_file, posline, filters, ret>>
    /\ UNCHANGED runVars

NextTokens == AppendToken \/ ExtractByScript

SpecTokens == InitTokens /\ [][NextTokens]_vars

\* A character of the target script
OfTargetScript(c) ==
    IF arg.script = "cjk" THEN is_cjk_character(c)
    ELSE is_script_character(c, arg.script)

HasTargetScript(w) == \E i \in 1..Len(w) : OfTargetScript(w[i])

\* The line qualifies: it holds a character of the target script
LineQualifies == HasTargetScript(lines[1])

\* The form in which a token is kept
KeptForm(t) ==
    IF arg.script = "cjk" THEN StripChars(t, CjkStripChars) ELSE clean_word(t)

\* The tokens of the line, each in the form in which it is kept
KeptForms == [k \in 1..Len(arg.tokens) |-> KeptForm(arg.tokens[k])]

\* A token kept by the code: for cjk one with a CJK character; for the
\* other scripts one of two or more characters, each of the script or a
\* hyphen
WhollyOfScript(w) ==
    IF arg.script = "cjk" THEN HasTargetScript(w)
    ELSE /\ Len(w) >= 2
         /\ \A i \in 1..Len(w) : OfTargetScript(w[i]) \/ w[i] = 45

\* C24 as stated: from a qualifying line, the tokens kept are those with at
\* least one character of the target script, for each of the four scripts.
C24_TokensWithScriptKept ==
    pc = "done" /\ LineQualifies =>
        words = SelectSeq(KeptForms, HasTargetScript)

\* C24, amended: for cjk the tokens kept are those with at least one CJK
\* character; for arabic, cyrillic and devanagari they are the tokens of two
\* or more characters all of which are of the script or hyphens, so that a
\* token that mixes the script with other characters, or has one character,
\* is not kept.  No token without a character of the script is kept.
C24_TokensWhollyOfScriptKept ==
    pc = "done" =>
        /\ LineQualifies => words = SelectSeq(KeptForms, WhollyOfScript)
        /\ ~LineQualifies => words = << >>
        /\ \A k \in 1..Len(words) : HasTargetScript(words[k])

\* A Cyrillic line: the mixed token and the token of one letter are left
\* out, the token with a comma is kept without it
C24_Witness ==
    /\ pc = "done"
    /\ arg.script = "cyrillic"
    /\ arg.tokens = << S(<<"cy_d","cy_o","cy_m","a">>), S(<<"cy_d">>), S(<<"cy_d","cy_o","cy_m",",">>) >>
    /\ words = << S(<<"cy_d","cy_o","cy_m">>) >>

-----------------------------------------------------------------------------
(* The two loops of extract_words_from_stardict, one turn at a time.       *)

\* One turn of the loop of the second pass, from the position pos, with
\* the position null_pos of the next zero byte (-1 when there is none) and
\* the headword decoded: the position after the turn, the words it adds and
\* whether the loop breaks
DirectRecord(idx_data, pos, null_pos, word, existing_words, language) ==
    IF null_pos = -1 THEN [pos |-> pos, words |-> << >>, stop |-> TRUE]
    ELSE IF null_pos + 1 + 8 > Len(idx_data)
    THEN [pos |-> null_pos + 1, words |-> << >>, stop |-> TRUE]
    ELSE [pos |-> null_pos + 1 + 8,
          words |-> IF /\ language = "source"
                       /\ is_valid_word(clean_word(word))
                       /\ word \notin existing_words
                    THEN << clean_word(word) >> ELSE << >>,
          stop |-> FALSE]

\* The most pieces an index buffer is made of
MaxChunks == 3

\* n zero bytes
Nulls(n) == [k \in 1..n |-> 0]

\* The pieces of an index buffer: a zero byte, a letter, a record with an
\* empty headword, a record of the headword 'dogs' with an offset beyond
\* the data, a record of the headword 'a' with its offset at the start
ScanChunks ==
    {<< 0 >>, << 97 >>, Nulls(9),
     S(<<"d","o","g","s">>) \o << 0 >> \o Pack32(FieldMax) \o Pack32(1),
     << 97, 0 >> \o Pack32(0) \o Pack32(1)}

InitScan ==
    /\ arg \in [idx_data : {<< >>}, chunks : {0}, dict_data : DataFiles]
    /\ extract_language \in Roles
    /\ pc = "first"
    /\ ret = "none"
    /\ lines = << >>
    /\ is_dz_file = FALSE
    /\ words = << >>
    /\ strategy = "none"
    /\ posline = << >>
    /\ filters = POS_FILTERS
    /\ output_file = << >>
    /\ dict_files = << >>
    /\ attempted = << >>
    /\ success_count = 0

\* One more piece in the index file
AppendChunk ==
    /\ pc = "first"
    /\ arg.chunks < MaxChunks
    /\ \E c \in ScanChunks :
           arg' = [arg EXCEPT !.idx_data = @ \o c, !.chunks = @ + 1]
    /\ UNCHANGED <<pc, ret, output_file, dict_files, attempted, success_count>>
    /\ UNCHANGED corpusVars

\* pos = 0, entries = []
StartScan ==
    /\ pc = "first"
    /\ pc' = "primary"
    /\ ret' = [pos |-> 0, entries |-> << >>, recovered_count |-> 0]
    /\ UNCHANGED corpusVars
    /\ UNCHANGED runVars

\* One turn of the primary loop, or its end
PrimaryTurn ==
    /\ pc = "primary"
    /\ \E step \in {IF ret.pos < Len(arg.idx_data)
                     THEN IndexRecord(arg.idx_data, arg.dict_data, ret.pos, ret.entries)
                     ELSE [pos |-> ret.pos, entries |-> ret.entries, stop |-> TRUE]} :
           /\ ret' = [ret EXCEPT !.pos = step.pos, !.entries = step.entries]
           /\ pc' = IF step.stop THEN "check" ELSE "primary"
    /\ UNCHANGED corpusVars
    /\ UNCHANGED runVars

\* The test between the two loops
CheckRecovery ==
    /\ pc = "check"
    /\ pc' = IF Len(ret.entries) < ret.pos \div 12 THEN "recovery" ELSE "entries"
    /\ ret' = IF Len(ret.entries) < ret.pos \div 12
              THEN [ret EXCEPT !.pos = 0] ELSE ret
    /\ UNCHANGED corpusVars
    /\ UNCHANGED runVars

\* One turn of the loop of the second pass, or its end
RecoveryTurn ==
    /\ pc = "recovery"
    /\ \E null_pos \in {IF ret.pos < Len(arg.idx_data)
                         THEN Find(arg.idx_data, 0, ret.pos) ELSE -1} :
       \E word \in {IF null_pos = -1 THEN << >>
                     ELSE Utf8Decode(Slice(arg.idx_data, ret.pos, null_pos))} :
       \E step \in {DirectRecord(arg.idx_data, ret.pos, null_pos, word,
                         {ret.entries[k][1] : k \in 1..Len(ret.entries)},
                         extract_language)} :
           /\ ret' = [ret EXCEPT !.pos = step.pos,
                                 !.recovered_count = @ + Len(step.words)]
           /\ words' = words \o step.words
           /\ pc' = IF step.stop THEN "entries" ELSE "recovery"
    /\ UNCHANGED <<lines, extract_language, is_dz_file, strategy, posline, filters>>
    /\ UNCHANGED runVars

\* The loop over the entries, and the return
EmitEntries ==
    /\ pc = "entries"
    /\ words' = words \o EntryWords(ret.entries, 1, extract_language)
    /\ pc' = "done"
    /\ UNCHANGED <<lines, extract_language, is_dz_file, strategy, posline, filters, ret>>
    /\ UNCHANGED runVars

\* The steps of the parser once the files are read
ScanStep == PrimaryTurn \/ CheckRecovery \/ RecoveryTurn \/ EmitEntries

NextScan == AppendChunk \/ StartScan \/ ScanStep

SpecScan == InitScan /\ [][NextScan]_vars

\* The parser is a sequential program: it takes its next step
FairSpecScan == SpecScan /\ WF_vars(ScanStep)

\* The turns of the two loops return what the function returns
ScanAgrees ==
    pc = "done" =>
        LET r == extract_words_from_stardict(arg.idx_data, arg.dict_data,
                                             extract_language)
        IN  /\ words = r.words
            /\ ret.recovered_count = r.recovered_count
            /\ ret.entries = r.entries

\* The bytes of the buffer from the position pos up to the next zero byte
RECURSIVE WordLength(_)
WordLength(pos) ==
    IF pos >= Len(arg.idx_data) \/ arg.idx_data[pos + 1] = 0 THEN 0
    ELSE 1 + WordLength(pos + 1)

\* A step taken within one of the two loops leaves the loop or moves the
\* position forward by the length of the headword plus 1 plus 8
TurnAdvances ==
    pc \in {"primary", "recovery"} =>
        \/ pc' # pc
        \/ /\ ret'.pos = ret.pos + WordLength(ret.pos) + 1 + 8
           /\ ret'.pos > ret.pos

\* C29: each turn of either loop ends the loop or moves the position
\* forward by the length of the headword plus 1 plus 8; the position is
\* never past the end of the buffer; and the parser, once started, returns.
C29_ScansTerminate ==
    /\ [](pc \in {"primary", "check", "recovery", "entries", "done"}
              => ret.pos \in 0..Len(arg.idx_data))
    /\ [][TurnAdvances]_vars
    /\ [](pc = "primary" => <>(pc = "done"))

\* The second pass has gone over one empty headword of a buffer of zero
\* bytes alone and goes on
C29_Witness ==
    /\ pc = "recovery"
    /\ arg.idx_data = Nulls(18)
    /\ ret.pos = 9
    /\ WordLength(0) = 0

-----------------------------------------------------------------------------
(* detect_alternating_pattern on corpora of headword and translation pairs *)
(* that fill the window, with the first pair at either parity.             *)

\* The pairs a block of the corpus repeats
BlockPairs == 15

\* Headword with pronunciation, then a translation of letters alone
AlignedPairs == {PairST, << HeadWord, LinePalabra >>, << HeadCasa, LinePalabra >>}

InitAligned ==
    Start({Header(ALT_START - 1), Header(ALT_START), Header(ALT_START + 1)})

\* The file read supplies one more block of pairs, until the window is full
AddPairs ==
    /\ pc = "first"
    /\ Len(lines) <= ALT_END
    /\ \E e \in AlignedPairs : lines' = lines \o Repeat(e, BlockPairs)
    /\ UNCHANGED <<pc, extract_language, is_dz_file, words, strategy, posline, filters, ret>>
    /\ UNCHANGED runVars

NextAligned == AddPairs \/ DetectAlternating

SpecAligned == InitAligned /\ [][NextAligned]_vars

\* The line at the 0-based index i is a headword with pronunciation markers
MarkedHeadword(i) == has_pronunciation_markers(Strip(At(lines, i)))

\* The line at the 0-based index i is made of letters and has no
\* pronunciation marker
PlainTranslation(i) ==
    /\ Strip(At(lines, i)) # << >>
    /\ \A k \in 1..Len(Strip(At(lines, i))) : IsAlpha(Strip(At(lines, i))[k])
    /\ ~has_pronunciation_markers(Strip(At(lines, i)))

\* The corpus covers the window, and in the window the lines of one parity
\* are headwords, each followed by a translation, and the lines of the
\* other parity are translations
AlternatesFrom(parity) ==
    /\ Len(lines) > ALT_END
    /\ \A i \in ALT_START..(ALT_END - 1) :
           IF i % 2 = parity
           THEN MarkedHeadword(i) /\ PlainTranslation(i + 1)
           ELSE PlainTranslation(i)

\* C27 as stated: on a corpus that alternates headword and translation
\* throughout the window [50,200), the detector returns source-target,
\* whether the headwords are at the even or at the odd indexes.
C27_AlignmentIndependent ==
    pc = "done" /\ (AlternatesFrom(0) \/ AlternatesFrom(1))
        => ret = "source-target"

-----------------------------------------------------------------------------
(* extract_words_from_gzip_content on corpora that end where the windows   *)
(* of the detectors begin.                                                 *)

\* A headword with pronunciation and tag, a translation, a definition, a
\* Cyrillic word
WindowLines == {HeadCasa, LineHouse, ProseTerm, S(<<"cy_d","cy_o","cy_m">>)}

InitWindows == Start({Header(ALT_START - 3)})

\* The file read supplies one more line, up to one line past the first
\* pair of the windows
AppendNearWindow ==
    /\ pc = "first"
    /\ Len(lines) <= ALT_START + 1
    /\ \E l \in WindowLines : lines' = Append(lines, l)
    /\ UNCHANGED <<extract_language, is_dz_file, pc, words, strategy, posline, filters, ret>>
    /\ UNCHANGED runVars

NextWindows == AppendNearWindow \/ Extract

SpecWindows == InitWindows /\ [][NextWindows]_vars

\* C28: on a corpus of at most 51 lines whose script is not one of the four
\* non-Latin scripts, the alternating detector returns unknown and the
\* simple and the multiline detectors return false, so the words are those
\* of the header-skip fallback for the role.
C28_ShortLatinFallsBack ==
    pc = "done" /\ Len(lines) <= ALT_START + 1 /\ DocScript \notin NonLatinScripts =>
        /\ ret = "unknown"
        /\ ~detect_simple_format(Doc)
        /\ ~detect_multiline_format(Doc)
        /\ strategy = "fallback"
        /\ words = _extract_with_header_skip(Doc, extract_language)

\* 51 lines that end in two pairs of headword and translation: the pairs
\* lie before the windows, no detector sees them, and the words are the
\* fallback's
C28_Witness ==
    /\ pc = "done"
    /\ Len(lines) = ALT_START + 1
    /\ SubSeq(lines, ALT_START - 2, ALT_START + 1)
           = << HeadCasa, LineHouse, HeadCasa, LineHouse >>
    /\ extract_language = "source"
    /\ strategy = "fallback"
    /\ ret = "unknown"
    /\ words = << S(<<"h","o","u","s","e">>) >>

====
